---- MODULE Spec2Model ----
(***************************************************************************)
(* Family tree: the FamilyTree data store (relationship lists and their    *)
(* repair) and TreeView.calculateLayout (generations, couple blocks, root  *)
(* components, anchor-based placement with the collision probe).           *)
(*                                                                         *)
(* A person is a record [id, parents, children, partners, gender,          *)
(* birthDate]; the relationship lists are sequences of ids (JS arrays).    *)
(* The store's Map and the list handed to calculateLayout are sequences of *)
(* persons in insertion order.  A birthDate of 0 stands for null / ''.     *)
(* Horizontal coordinates are exact rationals [n, d]: desiredX is a mean.  *)
(***************************************************************************)
EXTENDS Integers, Sequences, FiniteSets, TLC

\* ------------------------------------------------------------------ bounds
\* persons ever created, entries over all relationship lists, and the
\* persons and list entries of the content found in localStorage
MaxPeople == 3
MaxRefs == 4
MaxStored == 2
MaxStoredRefs == 2
MaxSplits == 1
MaxRoots == 3
MaxShared == 2
MaxKids == 3
MaxCouple == 2
MaxElders == 2
MaxRow == 8
MaxImported == 2
MaxImportIds == 2

\* --------------------------------------------------------- program constants
nodeWidth == 180
nodeHeight == 80
horizontalGap == 40
generationGap == 150
baseY == 100
baseX == 100
searchStep == 50
searchLimit == 4000
oppositeAfter == 1500
maxRounds == 100

\* ------------------------------------------------------------------ helpers
NULL == [null |-> TRUE]

Range(s) == {s[i] : i \in DOMAIN s}

Includes(s, x) == \E i \in DOMAIN s : s[i] = x

MaxOf(S) == CHOOSE m \in S : \A k \in S : k <= m

MinOf(S) == CHOOSE m \in S : \A k \in S : m <= k

Abs(a) == IF a < 0 THEN -a ELSE a

\* F applied to the value of x (x is evaluated once, before F).
With(x, F(_)) == CHOOSE r \in {F(v) : v \in {x}} : TRUE

\* for (k = 1; k <= n; k++) acc = Step(acc, k), starting from init. The turns
\* lo..hi are run as two halves, the first finished before the second starts.
Fold(init, n, Step(_, _)) ==
    LET RECURSIVE Turns(_, _, _)
        Turns(acc, lo, hi) ==
            IF lo > hi THEN acc
            ELSE IF lo = hi THEN Step(acc, lo)
            ELSE With(Turns(acc, lo, (lo + hi) \div 2),
                      LAMBDA half : Turns(half, ((lo + hi) \div 2) + 1, hi))
    IN  Turns(init, 1, n)

\* Array.prototype.filter
Filter(s, Keep(_)) ==
    Fold(<<>>, Len(s), LAMBDA acc, i : IF Keep(s[i]) THEN Append(acc, s[i]) ELSE acc)

\* Adding to a JS Set (insertion order kept, no duplicate).
AddNew(s, x) == IF Includes(s, x) THEN s ELSE Append(s, x)

AddAllNew(s, t) == Fold(s, Len(t), LAMBDA acc, i : AddNew(acc, t[i]))

\* [...new Set(list)]
Dedup(s) == AddAllNew(<<>>, s)

NoDuplicates(s) == \A i, j \in DOMAIN s : s[i] = s[j] => i = j

\* Array.prototype.sort as V8 runs it on a short array (TimSort below its
\* minimum run length): the initial run is counted (a strictly descending one
\* is reversed), then every later element is placed by binary insertion.
\* With a comparator that is a total preorder this is any stable sort.
ArraySort(s, Cmp(_, _)) ==
    LET n == Len(s)
        desc == n >= 2 /\ Cmp(s[2], s[1]) < 0
        RunOk(i) == IF desc THEN Cmp(s[i], s[i - 1]) < 0 ELSE Cmp(s[i], s[i - 1]) >= 0
        runLength == MaxOf({k \in 2..n : \A i \in 3..k : RunOk(i)})
        Reverse(t) == [i \in 1..Len(t) |-> t[Len(t) + 1 - i]]
        start == IF desc
                 THEN Reverse(SubSeq(s, 1, runLength)) \o SubSeq(s, runLength + 1, n)
                 ELSE s
        Pos(a, k) ==
            LET b[l \in 1..k, r \in 1..k] ==
                    IF l >= r THEN l
                    ELSE LET mid == l + ((r - l) \div 2)
                         IN  IF Cmp(a[k], a[mid]) < 0 THEN b[l, mid] ELSE b[mid + 1, r]
            IN  b[1, k]
        Step(a, k) ==
            LET p == Pos(a, k)
            IN  SubSeq(a, 1, p - 1) \o <<a[k]>> \o SubSeq(a, p, k - 1) \o SubSeq(a, k + 1, n)
    IN  IF n < 2 THEN s
        ELSE Fold(start, n, LAMBDA a, k : IF k <= runLength THEN a ELSE Step(a, k))

\* ---------------------------------------------------------------- rationals
RECURSIVE Gcd(_, _)
Gcd(a, b) == IF b = 0 THEN a ELSE Gcd(b, a % b)

Rat(n, d) ==
    LET g == Gcd(Abs(n), d)
    IN  IF n = 0 THEN [n |-> 0, d |-> 1] ELSE [n |-> n \div g, d |-> d \div g]

RInt(k) == [n |-> k, d |-> 1]

RAdd(a, b) == Rat(a.n * b.d + b.n * a.d, a.d * b.d)

RAddInt(a, k) == Rat(a.n + k * a.d, a.d)

RSub(a, b) == Rat(a.n * b.d - b.n * a.d, a.d * b.d)

RDivInt(a, k) == Rat(a.n, a.d * k)

RLess(a, b) == a.n * b.d < b.n * a.d

RLeq(a, b) == a.n * b.d <= b.n * a.d

\* sign of a - b
RCmp(a, b) == IF RLess(a, b) THEN -1 ELSE IF RLess(b, a) THEN 1 ELSE 0

\* ------------------------------------------------------------------ persons
Ids(people) == {people[i].id : i \in DOMAIN people}

\* personMap.get(id) / this.people.get(id); NULL stands for undefined.
Get(people, id) ==
    IF id \in Ids(people)
    THEN people[CHOOSE i \in DOMAIN people : people[i].id = id]
    ELSE NULL

IndexOf(people, id) == CHOOSE i \in DOMAIN people : people[i].id = id

\* The list with the person of this id replaced (an in-place mutation).
Put(people, p) == [people EXCEPT ![IndexOf(people, p.id)] = p]

\* ------------------------------------------- calculateLayout: pre-processing
\* forEach child id of people[i]: the child gets people[i] as a parent.
RepairChildLinks(people, i) ==
    LET pid == people[i].id
        kids == people[i].children
        Step(ps, k) ==
            LET child == Get(ps, kids[k])
            IN  IF child # NULL /\ ~Includes(child.parents, pid)
                THEN Put(ps, [child EXCEPT !.parents = Append(@, pid)])
                ELSE ps
    IN  Fold(people, Len(kids), Step)

\* forEach parent id of people[i]: the parent gets people[i] as a child.
RepairParentLinks(people, i) ==
    LET pid == people[i].id
        olds == people[i].parents
        Step(ps, k) ==
            LET parent == Get(ps, olds[k])
            IN  IF parent # NULL /\ ~Includes(parent.children, pid)
                THEN Put(ps, [parent EXCEPT !.children = Append(@, pid)])
                ELSE ps
    IN  Fold(people, Len(olds), Step)

\* The whole pass, person by person in list order, mutating in place.
RepairLinks(people) ==
    Fold(people, Len(people),
         LAMBDA ps, i : With(RepairChildLinks(ps, i),
                             LAMBDA linked : RepairParentLinks(linked, i)))

\* --------------------------------------------- calculateLayout: generations
\* The ids of a person's partners: the explicit ones, then every other parent
\* of each of the person's children (ids, whether or not a person matches).
PartnerIds(people, person) ==
    LET kids == person.children
        Step(acc, k) ==
            LET child == Get(people, kids[k])
            IN  IF child = NULL THEN acc
                ELSE AddAllNew(acc, Filter(child.parents, LAMBDA pid : pid # person.id))
    IN  Fold(Dedup(person.partners), Len(kids), Step)

\* Variant: an id that has a generation already takes the new one (without
\* being queued again).
AssignAllOverwriting(st, ids, g) ==
    LET Step(acc, k) ==
            IF ids[k] \in DOMAIN acc.gen
            THEN [acc EXCEPT !.gen[ids[k]] = g]
            ELSE [gen |-> acc.gen @@ (ids[k] :> g),
                  queue |-> Append(acc.queue, [id |-> ids[k], gen |-> g])]
    IN  Fold(st, Len(ids), Step)

\* generations.set + queue.push for every id of the list that has no
\* generation yet (first assignment wins).
AssignAll(st, ids, g) ==
    LET Step(acc, k) ==
            IF ids[k] \in DOMAIN acc.gen THEN acc
            ELSE [gen |-> acc.gen @@ (ids[k] :> g),
                  queue |-> Append(acc.queue, [id |-> ids[k], gen |-> g])]
    IN  Fold(st, Len(ids), Step)

\* One turn of the while loop: queue.shift() and the three propagations.
BfsVisit(people, st) ==
    LET head == Head(st.queue)
        rest == [st EXCEPT !.queue = Tail(st.queue)]
        person == Get(people, head.id)
    IN  IF person = NULL THEN rest
        ELSE With(With(With(rest,
                            LAMBDA s : AssignAll(s, PartnerIds(people, person), head.gen)),
                       LAMBDA s : AssignAll(s, person.children, head.gen + 1)),
                  LAMBDA s : AssignAll(s, person.parents, head.gen - 1))

\* Every id the people mention: each enters the queue at most once.
MentionedIds(people) ==
    UNION {{people[i].id} \cup Range(people[i].partners)
               \cup Range(people[i].children) \cup Range(people[i].parents) :
           i \in DOMAIN people}

\* while (queue.length > 0): a turn per queued id until the queue is empty.
BfsDrain(people, st) ==
    Fold(st, Len(st.queue) + Cardinality(MentionedIds(people)),
         LAMBDA s, turn : IF s.queue = <<>> THEN s ELSE BfsVisit(people, s))

\* people.forEach(seed => ...): a person without generation seeds a wave at 0.
BfsSeed(people, st, seedId) ==
    IF seedId \in DOMAIN st.gen THEN st
    ELSE With([gen |-> st.gen @@ (seedId :> 0),
               queue |-> Append(st.queue, [id |-> seedId, gen |-> 0])],
              LAMBDA seeded : BfsDrain(people, seeded))

RawGenerations(people) ==
    Fold([gen |-> <<>>, queue |-> <<>>], Len(people),
         LAMBDA st, i : BfsSeed(people, st, people[i].id)).gen

\* Variant: the generations are left as the waves assigned them.
NormalizeGenerationsSkipped(gen) == gen

\* Shift so that the smallest generation of the map is 0.
NormalizeGenerations(gen) ==
    IF DOMAIN gen = {} THEN gen
    ELSE LET minGen == MinOf({gen[id] : id \in DOMAIN gen})
         IN  IF minGen # 0 THEN [id \in DOMAIN gen |-> gen[id] - minGen] ELSE gen

Generations(people) == NormalizeGenerations(RawGenerations(people))

\* ------------------------------------------------ calculateLayout: buildTree
\* getFullPartners: the partner ids that match a person.
getFullPartners(people, person) ==
    Filter(PartnerIds(people, person), LAMBDA id : id \in Ids(people))

checkPartner(p) ==
    \/ Len(p.partners) > 0
    \/ \E k \in DOMAIN p.splitLinks :
          p.splitLinks[k].type = "partner" \/ p.splitLinks[k].ghostContext = "partner"

getWeight(p) ==
    IF ~checkPartner(p) THEN 0
    ELSE IF p.gender = "F" THEN -1
    ELSE IF p.gender = "M" THEN 1
    ELSE 0

\* The comparator of the "centripetal" child sort.
ChildCompare(people, a, b) ==
    LET pA == Get(people, a)
        pB == Get(people, b)
    IN  IF pA = NULL \/ pB = NULL THEN 0
        ELSE IF getWeight(pA) # getWeight(pB) THEN getWeight(pA) - getWeight(pB)
        ELSE IF pA.birthDate # 0 /\ pB.birthDate # 0 THEN pA.birthDate - pB.birthDate
        ELSE 0

\* childIds: the children of the primary, then of each partner, as a Set.
ChildIds(people, person, partners) ==
    Fold(Dedup(person.children), Len(partners),
         LAMBDA acc, k : AddAllNew(acc, Get(people, partners[k]).children))

SumTotalWidth(nodes) ==
    Fold(0, Len(nodes), LAMBDA sum, k : sum + nodes[k].totalWidth)

CoupleWidth(partners) ==
    (1 + Len(partners)) * nodeWidth + ((1 + Len(partners)) - 1) * horizontalGap

\* Variant: the children's block without the gaps between the children.
ChildrenWidthWithoutGaps(nodes) == SumTotalWidth(nodes)

ChildrenWidth(nodes) ==
    SumTotalWidth(nodes)
        + (IF Len(nodes) - 1 > 0 THEN Len(nodes) - 1 ELSE 0) * horizontalGap

TotalWidth(partners, nodes) ==
    IF CoupleWidth(partners) >= ChildrenWidth(nodes)
    THEN CoupleWidth(partners) ELSE ChildrenWidth(nodes)

\* Variant: the partners of a couple block are not marked as visited.
MarkPartnersSkipped(visited, partners) == visited

\* partners.forEach(p => visited.add(p.id))
MarkPartners(visited, partners) == visited \cup Range(partners)

\* buildTree(personId) with the visited set threaded through: the result is
\* [node, visited], node = NULL where the code returns null.
RECURSIVE buildTree(_, _, _)
RECURSIVE BuildChildren(_, _, _, _)
\* Variant: a call on a visited id that matches a person returns a node for
\* it again, without children.
buildTreeLeafAgain(people, visited, personId) ==
    IF personId \in visited
    THEN [node |-> IF personId \in Ids(people)
                   THEN [person |-> personId,
                         partners |-> <<>>,
                         children |-> <<>>,
                         coupleWidth |-> CoupleWidth(<<>>),
                         totalWidth |-> TotalWidth(<<>>, <<>>)]
                   ELSE NULL,
          visited |-> visited]
    ELSE LET person == Get(people, personId)
             v1 == visited \cup {personId}
         IN  IF person = NULL THEN [node |-> NULL, visited |-> v1]
             ELSE LET partners ==
                          Filter(getFullPartners(people, person), LAMBDA id : id \notin v1)
                      v2 == MarkPartners(v1, partners)
                      sortedChildIds ==
                          ArraySort(ChildIds(people, person, partners),
                                    LAMBDA a, b : ChildCompare(people, a, b))
                  IN  With(BuildChildren(people, v2, sortedChildIds, <<>>),
                           LAMBDA built :
                               [node |-> [person |-> personId,
                                          partners |-> partners,
                                          children |-> built.children,
                                          coupleWidth |-> CoupleWidth(partners),
                                          totalWidth |->
                                              TotalWidth(partners, built.children)],
                                visited |-> built.visited])

buildTree(people, visited, personId) ==
    IF personId \in visited THEN [node |-> NULL, visited |-> visited]
    ELSE LET person == Get(people, personId)
             v1 == visited \cup {personId}
         IN  IF person = NULL THEN [node |-> NULL, visited |-> v1]
             ELSE LET partners ==
                          Filter(getFullPartners(people, person), LAMBDA id : id \notin v1)
                      v2 == MarkPartners(v1, partners)
                      sortedChildIds ==
                          ArraySort(ChildIds(people, person, partners),
                                    LAMBDA a, b : ChildCompare(people, a, b))
                  IN  With(BuildChildren(people, v2, sortedChildIds, <<>>),
                           LAMBDA built :
                               [node |-> [person |-> personId,
                                          partners |-> partners,
                                          children |-> built.children,
                                          coupleWidth |-> CoupleWidth(partners),
                                          totalWidth |->
                                              TotalWidth(partners, built.children)],
                                visited |-> built.visited])

\* sortedChildIds.forEach(cid => { childNode = buildTree(cid); ... push })
BuildChildren(people, visited, ids, acc) ==
    Fold([children |-> acc, visited |-> visited], Len(ids),
         LAMBDA st, k :
             With(buildTree(people, st.visited, ids[k]),
                  LAMBDA r : [children |-> IF r.node = NULL THEN st.children
                                           ELSE Append(st.children, r.node),
                              visited |-> r.visited]))

\* ---------------------------------------------------- calculateLayout: roots
\* potentialRoots: the persons of generation 0, in list order (ids).
PotentialRoots(people, gen) ==
    Fold(<<>>, Len(people),
         LAMBDA acc, i : IF gen[people[i].id] = 0 THEN Append(acc, people[i].id) ELSE acc)

\* getDescendants(personId): the id and every id reachable through children.
RECURSIVE Reach(_, _, _)
Reach(people, frontier, seen) ==
    IF frontier = {} THEN seen
    ELSE LET next == UNION {Range(Get(people, id).children) :
                              id \in frontier \cap Ids(people)} \ seen
         IN  Reach(people, next, seen \cup next)

getDescendants(people, personId) == Reach(people, {personId}, {personId})

\* (a.birthDate || '').localeCompare(b.birthDate || '')
BirthCompare(people, a, b) == Get(people, a).birthDate - Get(people, b).birthDate

\* rootClusters: each unassigned root opens a cluster and takes every later
\* unassigned root whose descendants meet its own; the cluster is sorted.
RootClusters(people, potentialRoots) ==
    LET Step(prev, i) ==
            LET root == potentialRoots[i]
                Shares(other) ==
                    getDescendants(people, root) \cap getDescendants(people, other) # {}
                cluster ==
                    <<root>> \o Filter(potentialRoots,
                                       LAMBDA other : /\ other # root
                                                      /\ other \notin prev.assigned
                                                      /\ Shares(other))
            IN  IF root \in prev.assigned THEN prev
                ELSE [clusters |->
                          Append(prev.clusters,
                                 ArraySort(cluster,
                                           LAMBDA a, b : BirthCompare(people, a, b))),
                      assigned |-> prev.assigned \cup Range(cluster)]
    IN  Fold([clusters |-> <<>>, assigned |-> {}], Len(potentialRoots), Step).clusters

\* rootClusters.flat()
Flat(clusters) ==
    Fold(<<>>, Len(clusters), LAMBDA acc, i : acc \o clusters[i])

SortedRoots(people, gen) == Flat(RootClusters(people, PotentialRoots(people, gen)))

\* ids.forEach(id => { if (!visited.has(id)) { node = buildTree(id); push } })
BuildRoots(people, ids, start) ==
    Fold(start, Len(ids),
         LAMBDA st, i :
             With(buildTree(people, st.visited, ids[i]),
                  LAMBDA r : [roots |-> IF r.node = NULL THEN st.roots
                                        ELSE Append(st.roots, r.node),
                              visited |-> r.visited]))

\* Variant: only the generation-0 roots are built, without the final sweep.
ForestWithoutSweep(people, gen) ==
    BuildRoots(people, SortedRoots(people, gen), [roots |-> <<>>, visited |-> {}])

\* The forest: the ordered roots first, then the sweep over the whole list.
Forest(people, gen) ==
    With(BuildRoots(people, SortedRoots(people, gen), [roots |-> <<>>, visited |-> {}]),
         LAMBDA ordered :
             BuildRoots(people, [i \in DOMAIN people |-> people[i].id], ordered))

\* --------------------------------------- calculateLayout: relative positions
\* Map.set on a Map kept as a sequence of entries in insertion order.
MapSet(entries, e) ==
    IF \E k \in DOMAIN entries : entries[k].id = e.id
    THEN [k \in DOMAIN entries |-> IF entries[k].id = e.id THEN e ELSE entries[k]]
    ELSE Append(entries, e)

MapHas(entries, id) == \E k \in DOMAIN entries : entries[k].id = id

MapGet(entries, id) == entries[CHOOSE k \in DOMAIN entries : entries[k].id = id]

RECURSIVE calcRelative(_, _, _, _)
RECURSIVE CalcChildren(_, _, _, _)
\* Variant: the children are put in the row of their parent.
calcRelativeSameRow(acc, node, x, y) ==
    LET coupleX == x + ((node.totalWidth - node.coupleWidth) \div 2)
        withPerson == MapSet(acc, [id |-> node.person, x |-> coupleX, y |-> y])
        withPartners ==
            Fold(withPerson, Len(node.partners),
                 LAMBDA map, k : MapSet(map, [id |-> node.partners[k],
                                              x |-> coupleX + k * (nodeWidth + horizontalGap),
                                              y |-> y]))
        childX == x + ((node.totalWidth - ChildrenWidth(node.children)) \div 2)
    IN  CalcChildren(withPartners, node.children, childX, y)

\* calcRelative(node, x, y): the person and its partners in row y, the
\* children one generationGap below.
calcRelative(acc, node, x, y) ==
    LET coupleX == x + ((node.totalWidth - node.coupleWidth) \div 2)
        withPerson == MapSet(acc, [id |-> node.person, x |-> coupleX, y |-> y])
        withPartners ==
            Fold(withPerson, Len(node.partners),
                 LAMBDA map, k : MapSet(map, [id |-> node.partners[k],
                                              x |-> coupleX + k * (nodeWidth + horizontalGap),
                                              y |-> y]))
        childX == x + ((node.totalWidth - ChildrenWidth(node.children)) \div 2)
    IN  CalcChildren(withPartners, node.children, childX,
                     y + generationGap)

CalcChildren(acc, nodes, childX, y) ==
    Fold([map |-> acc, x |-> childX], Len(nodes),
         LAMBDA at, k : [map |-> calcRelative(at.map, nodes[k], at.x, y),
                         x |-> at.x + nodes[k].totalWidth + horizontalGap]).map

\* The anchors of a tree: every child, partner and parent id of its persons
\* that is not in the tree, once, in discovery order.
Anchors(people, rel) ==
    LET Outside(ids, got) ==
            AddAllNew(got, Filter(ids, LAMBDA id : ~MapHas(rel, id)))
        Step(got, k) ==
            LET person == Get(people, rel[k].id)
            IN  IF person = NULL THEN got
                ELSE Outside(person.parents,
                             Outside(person.partners,
                                     Outside(person.children, got)))
    IN  Fold(<<>>, Len(rel), Step)

\* rootLayouts: one record per root, nothing placed yet (how and round are
\* history fields: the path and the round of the commit).
RootLayouts(people, roots) ==
    [i \in DOMAIN roots |->
        LET rel == calcRelative(<<>>, roots[i], 0, 0)
        IN  [rootNode |-> roots[i],
             relativePositions |-> rel,
             width |-> roots[i].totalWidth,
             id |-> roots[i].person,
             anchors |-> Anchors(people, rel),
             placed |-> FALSE,
             finalX |-> RInt(0),
             how |-> "none",
             round |-> 0]]

\* ------------------------------------------ calculateLayout: collision probe
\* checkFit(layout, targetX) against the placed positions: every pair of a
\* candidate person and a placed person in the same row whose padded x-ranges
\* meet is a collision; pushDir counts +1 when the candidate is to the right.
CollisionsUnpadded(layout, targetX, placed) ==
    {c \in (DOMAIN layout.relativePositions) \X (DOMAIN placed) :
        LET absX == RAddInt(targetX, layout.relativePositions[c[1]].x)
            absY == baseY + layout.relativePositions[c[1]].y
            pos == placed[c[2]]
        IN  /\ Abs(pos.y - absY) < nodeHeight
            /\ RLess(absX, RAddInt(pos.x, nodeWidth))
            /\ RLess(pos.x, RAddInt(absX, nodeWidth))}

Collisions(layout, targetX, placed) ==
    {c \in (DOMAIN layout.relativePositions) \X (DOMAIN placed) :
        LET absX == RAddInt(targetX, layout.relativePositions[c[1]].x)
            absY == baseY + layout.relativePositions[c[1]].y
            pos == placed[c[2]]
        IN  /\ Abs(pos.y - absY) < nodeHeight
            /\ RLess(absX, RAddInt(pos.x, nodeWidth + horizontalGap))
            /\ RLess(pos.x, RAddInt(absX, nodeWidth + horizontalGap))}

\* Variant: a collision counts as "candidate to the right" unless the
\* candidate centre is strictly left of the obstacle centre.
checkFitTiesRight(layout, targetX, placed) ==
    LET hit == Collisions(layout, targetX, placed)
        left == {c \in hit :
                    RLess(RAddInt(targetX, layout.relativePositions[c[1]].x),
                          placed[c[2]].x)}
    IN  [fits |-> hit = {},
         pushDir |-> Cardinality(hit \ left) - Cardinality(left)]

checkFit(layout, targetX, placed) ==
    LET hit == Collisions(layout, targetX, placed)
        right == {c \in hit :
                    RLess(placed[c[2]].x,
                          RAddInt(targetX, layout.relativePositions[c[1]].x))}
    IN  [fits |-> hit = {},
         pushDir |-> Cardinality(right) - Cardinality(hit \ right)]

\* ---------------------------------------------- calculateLayout: scheduler
PlacedAnchors(layout, placed) ==
    Filter(layout.anchors, LAMBDA id : MapHas(placed, id))

SumX(ids, placed) ==
    Fold(RInt(0), Len(ids), LAMBDA sum, k : RAdd(sum, MapGet(placed, ids[k]).x))

\* The score and desiredX of an unplaced layout (desiredX NULL for null).
Candidate(layouts, i, placed) ==
    LET layout == layouts[i]
        placedAnchors == PlacedAnchors(layout, placed)
    IN  IF Len(placedAnchors) > 0
        THEN [layout |-> i, score |-> 10,
              desiredX |-> RSub(RDivInt(SumX(placedAnchors, placed), Len(placedAnchors)),
                                Rat(layout.width, 2))]
        ELSE IF Len(layout.anchors) > 0
        THEN [layout |-> i, score |-> -5, desiredX |-> NULL]
        ELSE [layout |-> i, score |-> 1, desiredX |-> NULL]

\* Variant: the candidates are compared by score alone.
CandidateCompareScoreOnly(a, b) == b.score - a.score

\* The comparator of candidates.sort: score descending, then desiredX
\* ascending where both have one.
CandidateCompare(a, b) ==
    IF b.score # a.score THEN b.score - a.score
    ELSE IF a.desiredX # NULL /\ b.desiredX # NULL THEN RCmp(a.desiredX, b.desiredX)
    ELSE 0

\* Variant: every layout is a candidate, placed or not.
CandidatesOfAll(layouts, placed) ==
    ArraySort([i \in DOMAIN layouts |-> Candidate(layouts, i, placed)], CandidateCompare)

\* candidates: the unplaced layouts in rootLayouts order, scored, then sorted.
Candidates(layouts, placed) ==
    LET unplaced == Filter([i \in DOMAIN layouts |-> i], LAMBDA i : ~layouts[i].placed)
    IN  ArraySort([k \in DOMAIN unplaced |-> Candidate(layouts, unplaced[k], placed)],
                  CandidateCompare)

\* Variant: both sides are tried at every offset.
collisionSearchBothSides(layout, placed, placeX, preferredDir, offset) ==
    LET Next(turn) == offset + turn * searchStep
        Runs(turn) == Next(turn) - searchStep < searchLimit
        Near(turn) ==
            checkFit(layout, RAddInt(placeX, Next(turn) * preferredDir), placed).fits
        Far(turn) ==
            checkFit(layout, RAddInt(placeX, -(Next(turn) * preferredDir)), placed).fits
        hits == {turn \in 1..((searchLimit \div searchStep) + 1) :
                    Runs(turn) /\ (Near(turn) \/ Far(turn))}
        first == MinOf(hits)
    IN  IF hits = {} THEN [fits |-> FALSE, placeX |-> placeX]
        ELSE IF Near(first)
        THEN [fits |-> TRUE, placeX |-> RAddInt(placeX, Next(first) * preferredDir)]
        ELSE [fits |-> TRUE, placeX |-> RAddInt(placeX, -(Next(first) * preferredDir))]

\* The outward scan: while (offset < searchLimit) the offset grows by a step
\* (50, 100, ..., 4000) and the preferred side is probed, then the other side
\* once the offset is beyond 1500. The scan ends at its first turn with a fit
\* (the turns are numbered from 1), on the preferred side when both fit.
collisionSearch(layout, placed, placeX, preferredDir, offset) ==
    LET Next(turn) == offset + turn * searchStep
        Runs(turn) == Next(turn) - searchStep < searchLimit
        Near(turn) ==
            checkFit(layout, RAddInt(placeX, Next(turn) * preferredDir), placed).fits
        Far(turn) ==
            Next(turn) > oppositeAfter /\ checkFit(layout, RAddInt(placeX, -(Next(turn) * preferredDir)), placed).fits
        hits == {turn \in 1..((searchLimit \div searchStep) + 1) :
                    Runs(turn) /\ (Near(turn) \/ Far(turn))}
        first == MinOf(hits)
    IN  IF hits = {} THEN [fits |-> FALSE, placeX |-> placeX]
        ELSE IF Near(first)
        THEN [fits |-> TRUE, placeX |-> RAddInt(placeX, Next(first) * preferredDir)]
        ELSE [fits |-> TRUE, placeX |-> RAddInt(placeX, -(Next(first) * preferredDir))]

RMax(a, b) == IF RLess(a, b) THEN b ELSE a

\* Variants of the rightmost-append offset: without the gap, and with one gap.
AppendXWithoutGap(layouts) ==
    Fold(RInt(baseX), Len(layouts),
         LAMBDA maxPlacedX, i :
             IF layouts[i].placed
             THEN RMax(maxPlacedX, RAddInt(layouts[i].finalX, layouts[i].width))
             ELSE maxPlacedX)

AppendXSingleGap(layouts) == RAddInt(AppendXWithoutGap(layouts), horizontalGap)

\* maxPlacedX + horizontalGap * 1.5 over the placed layouts, from 100.
AppendX(layouts) ==
    RAddInt(Fold(RInt(baseX), Len(layouts),
                 LAMBDA maxPlacedX, i :
                     IF layouts[i].placed
                     THEN RMax(maxPlacedX, RAddInt(layouts[i].finalX, layouts[i].width))
                     ELSE maxPlacedX),
            (horizontalGap * 3) \div 2)

\* Where the best candidate goes, and by which path ("how" is a history field:
\* desired, search, fallback after a failed search, append without desiredX).
Placement(layouts, best, placed) ==
    LET layout == layouts[best.layout]
        fitResult == checkFit(layout, best.desiredX, placed)
        preferredDir == IF fitResult.pushDir >= 0 THEN 1 ELSE -1
        found == collisionSearch(layout, placed, best.desiredX, preferredDir, 0)
    IN  IF best.desiredX = NULL THEN [placeX |-> AppendX(layouts), how |-> "append"]
        ELSE IF fitResult.fits THEN [placeX |-> best.desiredX, how |-> "desired"]
        ELSE IF found.fits THEN [placeX |-> found.placeX, how |-> "search"]
        ELSE [placeX |-> AppendX(layouts), how |-> "fallback"]

\* Variant: the relative x is subtracted from placeX.
CommitMirrored(map, layout, placeX) ==
    LET rel == layout.relativePositions
    IN  Fold(map, Len(rel),
             LAMBDA acc, k : MapSet(acc, [id |-> rel[k].id,
                                          x |-> RAddInt(placeX, -rel[k].x),
                                          y |-> baseY + rel[k].y]))

\* Variant: the position map is started afresh by every commit.
CommitReplacing(map, layout, placeX) ==
    LET rel == layout.relativePositions
    IN  Fold(<<>>, Len(rel),
             LAMBDA acc, k : MapSet(acc, [id |-> rel[k].id,
                                          x |-> RAddInt(placeX, rel[k].x),
                                          y |-> baseY + rel[k].y]))

\* Commit: every person of the layout gets placeX + rel.x, 100 + rel.y.
Commit(map, layout, placeX) ==
    LET rel == layout.relativePositions
    IN  Fold(map, Len(rel),
             LAMBDA acc, k : MapSet(acc, [id |-> rel[k].id,
                                          x |-> RAddInt(placeX, rel[k].x),
                                          y |-> baseY + rel[k].y]))

\* ----------------------------------------------- calculateLayout as a whole
\* One round of the placement loop: the layouts and the placed map after it.
PlaceOne(layouts, placed, counter) ==
    CHOOSE after \in
        {[layouts |-> [layouts EXCEPT ![best.layout] =
                          [@ EXCEPT !.placed = TRUE,
                                    !.finalX = where.placeX,
                                    !.how = where.how,
                                    !.round = counter + 1]],
          placed |-> Commit(placed, layouts[best.layout], where.placeX)] :
            <<best, where>> \in
                {<<b, Placement(layouts, b, placed)>> :
                    b \in {Candidates(layouts, placed)[1]}}} : TRUE

\* The placement loop run to its end, the position map after the last round:
\* while (some layout is unplaced && safetyCounter < 100), a round per turn.
\* A round places one layout, so the loop makes no more turns than there are
\* layouts.
PlaceAll(layouts, placed, counter) ==
    Fold([layouts |-> layouts, placed |-> placed],
         IF Len(layouts) < maxRounds - counter THEN Len(layouts) ELSE maxRounds - counter,
         LAMBDA at, turn :
             IF \E i \in DOMAIN at.layouts : ~at.layouts[i].placed
             THEN PlaceOne(at.layouts, at.placed, counter + turn - 1)
             ELSE at).placed

\* Variant: the call goes on from the position map the view holds.
calculateLayoutWithoutClear(view, people) ==
    IF Len(people) = 0 THEN [people |-> people, positions |-> view.positions]
    ELSE With(RepairLinks(people),
              LAMBDA repaired :
                  With(With(Generations(repaired), LAMBDA gen : Forest(repaired, gen)),
                       LAMBDA forest :
                           With(RootLayouts(repaired, forest.roots),
                                LAMBDA layouts :
                                    [people |-> repaired,
                                     positions |-> PlaceAll(layouts, view.positions, 0)])))

\* calculateLayout(people) on a view: the view's position map is cleared, the
\* links are repaired in place, and generations, visited set, forest and
\* placed positions are built from nothing. The result is the list as the
\* call leaves it and the position map of the view.
calculateLayout(view, people) ==
    IF Len(people) = 0 THEN [people |-> people, positions |-> <<>>]
    ELSE With(RepairLinks(people),
              LAMBDA repaired :
                  With(With(Generations(repaired), LAMBDA gen : Forest(repaired, gen)),
                       LAMBDA forest :
                           With(RootLayouts(repaired, forest.roots),
                                LAMBDA layouts :
                                    [people |-> repaired,
                                     positions |-> PlaceAll(layouts, <<>>, 0)])))

\* ------------------------------------------------------------------ render
\* getConnectedPartners: the explicit partners, then the other parents of the
\* person's children.
getConnectedPartners(people, p) == PartnerIds(people, p)

\* 1. Partner lines: one line for each pair {p, partner} of positioned ids,
\* drawn at the first person of the list that reaches the pair.
PartnerLinesOf(people, positions_, acc, p) ==
    LET partners == getConnectedPartners(people, p)
        Step(lines, k) ==
            IF ~MapHas(positions_, partners[k]) THEN lines
            ELSE IF \E c \in DOMAIN lines : Range(lines[c].ids) = {p.id, partners[k]}
                 THEN lines
                 ELSE Append(lines, [kind |-> "partner", ids |-> <<p.id, partners[k]>>])
    IN  IF MapHas(positions_, p.id) THEN Fold(acc, Len(partners), Step) ELSE acc

PartnerLines(people, positions_) ==
    Fold(<<>>, Len(people),
         LAMBDA lines, i : PartnerLinesOf(people, positions_, lines, people[i]))

\* 2. Child lines: one path for each positioned child with a positioned
\* parent, unless the child has a split-link record of type parent.  The
\* path carries the ids of all the parents and ends at the child's top centre.
HasParentSplit(child) ==
    \E k \in DOMAIN child.splitLinks : child.splitLinks[k].type = "parent"

ChildLine(positions_, child) ==
    LET childPos == MapGet(positions_, child.id)
    IN  [kind |-> "child",
         ids |-> Append(child.parents, child.id),
         to |-> [x |-> RAddInt(childPos.x, nodeWidth \div 2), y |-> childPos.y]]

ChildLines(people, positions_) ==
    LET Drawn(child) ==
            /\ MapHas(positions_, child.id)
            /\ Len(child.parents) > 0
            /\ ~HasParentSplit(child)
            /\ \E k \in DOMAIN child.parents : MapHas(positions_, child.parents[k])
    IN  Fold(<<>>, Len(people),
             LAMBDA lines, i : IF Drawn(people[i])
                               THEN Append(lines, ChildLine(positions_, people[i]))
                               ELSE lines)

\* Variant: the ghost of a child-type record is put below the linked person.
GhostOfBelow(positions_, person, split) ==
    LET linkedPos == MapGet(positions_, split.linkedPersonId)
    IN  [person |-> person.id,
         linkedPerson |-> split.linkedPersonId,
         splitType |-> split.type,
         ghostX |-> IF split.type = "partner"
                    THEN RAddInt(linkedPos.x, nodeWidth + horizontalGap)
                    ELSE linkedPos.x,
         ghostY |-> IF split.type = "partner" THEN linkedPos.y
                    ELSE linkedPos.y + generationGap]

\* renderGhostNodes, first loop: the ghost of one split-link record (NULL
\* coordinates stand for undefined).
GhostOf(positions_, person, split) ==
    LET linkedPos == MapGet(positions_, split.linkedPersonId)
    IN  [person |-> person.id,
         linkedPerson |-> split.linkedPersonId,
         splitType |-> split.type,
         ghostX |-> IF split.type = "parent" THEN linkedPos.x
                    ELSE IF split.type = "partner"
                    THEN RAddInt(linkedPos.x, nodeWidth + horizontalGap)
                    ELSE IF split.type = "child" THEN linkedPos.x
                    ELSE NULL,
         ghostY |-> IF split.type = "parent" THEN linkedPos.y + generationGap
                    ELSE IF split.type = "partner" THEN linkedPos.y
                    ELSE IF split.type = "child" THEN linkedPos.y - generationGap
                    ELSE NULL]

GhostsOf(people, positions_, acc, person) ==
    Fold(acc, Len(person.splitLinks),
         LAMBDA ghosts, k :
             IF /\ person.splitLinks[k].linkedPersonId \in Ids(people)
                /\ MapHas(positions_, person.splitLinks[k].linkedPersonId)
             THEN Append(ghosts, GhostOf(positions_, person, person.splitLinks[k]))
             ELSE ghosts)

ghostPositions(people, positions_) ==
    Fold(<<>>, Len(people),
         LAMBDA ghosts, i : GhostsOf(people, positions_, ghosts, people[i]))

\* renderGhostNodes, second loop: a ghost of split type parent gets a path
\* from the linked person that ends at the ghost's top centre.
GhostLines(ghosts) ==
    Fold(<<>>, Len(ghosts),
         LAMBDA lines, k :
             IF ghosts[k].splitType = "parent"
             THEN Append(lines,
                         [kind |-> "ghost",
                          ids |-> <<ghosts[k].linkedPerson, ghosts[k].person>>,
                          to |-> [x |-> RAddInt(ghosts[k].ghostX, nodeWidth \div 2),
                                  y |-> ghosts[k].ghostY]])
             ELSE lines)

\* ------------------------------------------------------------ FamilyTree store
\* The data a new person is created with: one profile per id (gender and
\* birthDate are tie-break keys of the layout; 0 is "no birth date").
GenderOf(id) == IF id % 3 = 1 THEN "M" ELSE IF id % 3 = 2 THEN "F" ELSE ""

BirthDateOf(id) == IF id % 3 = 1 THEN 2 ELSE IF id % 3 = 2 THEN 1 ELSE 0

NewPerson(id) ==
    [id |-> id, parents |-> <<>>, children |-> <<>>, partners |-> <<>>,
     gender |-> GenderOf(id), birthDate |-> BirthDateOf(id), splitLinks |-> <<>>]

\* owner.relationships[field].push(x) when it does not include x yet.
PushNew(people, ownerId, field, x) ==
    LET owner == Get(people, ownerId)
    IN  IF Includes(owner[field], x) THEN people
        ELSE Put(people, [owner EXCEPT ![field] = Append(@, x)])

\* owner.relationships[field] = owner.relationships[field].filter(id => id !== x)
Without(people, ownerId, field, x) ==
    LET owner == Get(people, ownerId)
    IN  Put(people, [owner EXCEPT ![field] = Filter(@, LAMBDA id : id # x)])

createPerson(people, id) == Append(people, NewPerson(id))

\* For every id of the list that matches a person, drop `id` from that
\* person's `field` list.
DropFromAll(people, ids, field, id) ==
    Fold(people, Len(ids),
         LAMBDA ps, k : IF ids[k] \in Ids(people) THEN Without(ps, ids[k], field, id) ELSE ps)

\* Variant: the partners of the deleted person keep its id.
deletePersonKeepingPartners(people, id) ==
    LET s1 == DropFromAll(people, Get(people, id).parents, "children", id)
        s2 == DropFromAll(s1, Get(s1, id).children, "parents", id)
    IN  Filter(s2, LAMBDA p : p.id # id)

deletePerson(people, id) ==
    LET s1 == DropFromAll(people, Get(people, id).parents, "children", id)
        s2 == DropFromAll(s1, Get(s1, id).children, "parents", id)
        s3 == DropFromAll(s2, Get(s2, id).partners, "partners", id)
    IN  Filter(s3, LAMBDA p : p.id # id)

\* case 'sibling': every parent of the person becomes a parent of the sibling.
AddSibling(people, personId, relatedId) ==
    LET sharedParents == Get(people, personId).parents
        Step(ps, k) ==
            LET s1 == PushNew(ps, relatedId, "parents", sharedParents[k])
            IN  IF sharedParents[k] \in Ids(people)
                THEN PushNew(s1, sharedParents[k], "children", relatedId)
                ELSE s1
    IN  Fold(people, Len(sharedParents), Step)

addRelationship(people, personId, relatedId, type) ==
    IF type = "parent"
    THEN PushNew(PushNew(people, personId, "parents", relatedId),
                 relatedId, "children", personId)
    ELSE IF type = "child"
    THEN PushNew(PushNew(people, personId, "children", relatedId),
                 relatedId, "parents", personId)
    ELSE IF type = "partner"
    THEN PushNew(PushNew(people, personId, "partners", relatedId),
                 relatedId, "partners", personId)
    ELSE IF type = "sibling" THEN AddSibling(people, personId, relatedId)
    ELSE people

removeRelationship(people, personId, relatedId, type) ==
    IF type = "parent"
    THEN Without(Without(people, personId, "parents", relatedId),
                 relatedId, "children", personId)
    ELSE IF type = "child"
    THEN Without(Without(people, personId, "children", relatedId),
                 relatedId, "parents", personId)
    ELSE IF type = "partner"
    THEN Without(Without(people, personId, "partners", relatedId),
                 relatedId, "partners", personId)
    ELSE people

\* splitLink(personId, type, linkedPersonId, ghostContext): a record is pushed
\* unless the person has one of this type and linked person already.
HasSplit(person, type, linkedPersonId) ==
    \E k \in DOMAIN person.splitLinks :
        /\ person.splitLinks[k].type = type
        /\ person.splitLinks[k].linkedPersonId = linkedPersonId

splitLink(people, personId, type, linkedPersonId, ghostContext) ==
    LET person == Get(people, personId)
    IN  IF HasSplit(person, type, linkedPersonId) THEN people
        ELSE Put(people, [person EXCEPT !.splitLinks =
                             Append(@, [type |-> type,
                                        linkedPersonId |-> linkedPersonId,
                                        ghostContext |-> ghostContext])])

unsplitLink(people, personId, type, linkedPersonId) ==
    LET person == Get(people, personId)
    IN  Put(people, [person EXCEPT !.splitLinks =
                        Filter(@, LAMBDA r : ~(r.type = type /\ r.linkedPersonId = linkedPersonId))])

\* Variant: the back-reference is pushed without the includes() test.
RepairFieldAlwaysPush(st, i, field, back) ==
    LET id == st.people[i].id
        deduped == Dedup(st.people[i][field])
        s0 == [st EXCEPT !.people[i][field] = deduped]
        Step(acc, k) ==
            LET other == Get(acc.people, deduped[k])
            IN  IF other # NULL
                THEN [people |-> Put(acc.people, [other EXCEPT ![back] = Append(@, id)]),
                      changed |-> TRUE]
                ELSE acc
    IN  Fold(s0, Len(deduped), Step)

\* One direction of repairData for the person at index i: the list `field` is
\* deduplicated, then every listed id that matches a person gets the
\* back-reference in its `back` list; changed is set by an added reference.
RepairField(st, i, field, back) ==
    LET id == st.people[i].id
        deduped == Dedup(st.people[i][field])
        s0 == [st EXCEPT !.people[i][field] = deduped]
        Step(acc, k) ==
            LET other == Get(acc.people, deduped[k])
            IN  IF other # NULL /\ ~Includes(other[back], id)
                THEN [people |-> Put(acc.people, [other EXCEPT ![back] = Append(@, id)]),
                      changed |-> TRUE]
                ELSE acc
    IN  Fold(s0, Len(deduped), Step)

\* Variant: the partner lists are not symmetrised.
repairDataWithoutPartners(people) ==
    Fold([people |-> people, changed |-> FALSE], Len(people),
         LAMBDA st, i : RepairField(RepairField(st, i, "parents", "children"),
                                    i, "children", "parents"))

\* repairData(): [people, changed], changed being the value returned.
repairData(people) ==
    Fold([people |-> people, changed |-> FALSE], Len(people),
         LAMBDA st, i :
             RepairField(
                 RepairField(
                     RepairField(st, i, "parents", "children"),
                     i, "children", "parents"),
                 i, "partners", "partners"))

\* load(): the stored entries become the Map, then repairData() runs.
load(entries) == repairData(entries).people

\* What a JSON string can be to importJSON: not parseable; parseable without
\* a people array; or with a people array of up to MaxImported entries, each
\* of them null or an object with or without an id (0 stands for a missing
\* one), with or without a firstName, and with a partners list.
ImportEntries ==
    {[isNull |-> TRUE, id |-> 0, firstName |-> FALSE, partners |-> <<>>]}
        \cup [isNull : {FALSE}, id : 0..MaxImportIds, firstName : BOOLEAN,
              partners : {<<>>, <<1>>}]

ImportInputs ==
    {[parses |-> FALSE, hasPeople |-> FALSE, people |-> <<>>],
     [parses |-> TRUE, hasPeople |-> FALSE, people |-> <<>>]}
        \cup {[parses |-> TRUE, hasPeople |-> TRUE, people |-> es] :
                 es \in UNION {[1..n -> ImportEntries] : n \in 0..MaxImported}}

\* The forEach over data.people on the cleared Map: reading the id of a null
\* entry throws and ends the loop; an entry without id or firstName is
\* skipped; the others are set by id.
ImportPeople(entries) ==
    Fold([people |-> <<>>, thrown |-> FALSE], Len(entries),
         LAMBDA st, k :
             IF st.thrown THEN st
             ELSE IF entries[k].isNull THEN [st EXCEPT !.thrown = TRUE]
             ELSE IF entries[k].id = 0 \/ ~entries[k].firstName THEN st
             ELSE [st EXCEPT !.people =
                      MapSet(@, [NewPerson(entries[k].id)
                                    EXCEPT !.partners = entries[k].partners])])

\* importJSON(jsonString): the store after the call and the object returned
\* (count is 0 where the object has none). Whatever is thrown inside the try
\* is caught and returns success false.
importJSON(people, input) ==
    IF ~input.parses \/ ~input.hasPeople
    THEN [people |-> people, success |-> FALSE, count |-> 0]
    ELSE LET imported == ImportPeople(input.people)
             repaired == repairData(imported.people).people
         IN  IF imported.thrown
             THEN [people |-> imported.people, success |-> FALSE, count |-> 0]
             ELSE [people |-> repaired, success |-> TRUE, count |-> Len(repaired)]

\* ------------------------------------------------------------------- state
VARIABLES
    people,         \* FamilyTree.people: the persons, in Map insertion order
    created,        \* ids handed out so far by generateId
    before,         \* history: the content before the first of the repairData()
                    \*   calls just made in a row, read only while repairs >= 1
                    \*   (empty when the last operation was another one)
    repairs,        \* history: repairData() calls just made in a row (up to 2)
    ret,            \* the value the last store operation returned
    pc,             \* where calculateLayout is: idle, generations, roots, place, done
    generations,    \* the generation map (id -> generation)
    roots,          \* the forest: [roots, visited]
    rootLayouts,    \* the root layouts in root order
    positions,      \* TreeView.positions / placedPersonPositions, as Map entries
    safetyCounter,  \* the rounds of the placement loop so far
    drawn           \* what render put on the canvas: [connections, ghosts]

vars == <<people, created, before, repairs, ret, pc, generations, roots,
          rootLayouts, positions, safetyCounter, drawn>>

layoutVars == <<generations, roots, rootLayouts, positions, safetyCounter, drawn>>

\* this.canvas.innerHTML = ''
Blank == [connections |-> <<>>, ghosts |-> <<>>]

TotalRefs(ps) ==
    Fold(0, Len(ps),
         LAMBDA sum, i : sum + Len(ps[i].parents) + Len(ps[i].children) + Len(ps[i].partners))

\* What localStorage may hold: up to MaxStored persons whose relationship
\* lists were filled by up to MaxStoredRefs pushes of an id (0 matches no
\* person), with no regard for back-references or duplicates.
StoredRefs(n) == [owner : 1..n, field : {"parents", "children", "partners"}, target : 0..n]

RawEntries(n, refs) ==
    Fold([i \in 1..n |-> NewPerson(i)], Len(refs),
         LAMBDA entries, k :
             [entries EXCEPT ![refs[k].owner][refs[k].field] = Append(@, refs[k].target)])

StoredContents ==
    UNION {UNION {{RawEntries(n, refs) : refs \in [1..k -> StoredRefs(n)]} :
                    k \in 0..MaxStoredRefs} :
             n \in 0..MaxStored}

Init ==
    /\ before \in StoredContents
    /\ people = load(before)
    /\ created = Len(before)
    /\ repairs = 1
    /\ ret = repairData(before).changed
    /\ pc = "idle"
    /\ generations = <<>>
    /\ roots = [roots |-> <<>>, visited |-> {}]
    /\ rootLayouts = <<>>
    /\ positions = <<>>
    /\ safetyCounter = 0
    /\ drawn = Blank

\* ------------------------------------------------------------ store actions
StoreStep(newPeople, result) ==
    /\ pc = "idle"
    /\ people' = newPeople
    /\ ret' = result
    /\ before' = <<>>
    /\ repairs' = 0
    /\ UNCHANGED <<pc, layoutVars>>

CreatePerson ==
    /\ created < MaxPeople
    /\ created' = created + 1
    /\ StoreStep(createPerson(people, created + 1), TRUE)

\* deletePerson(id); an id that matches no person returns false at once.
DeletePerson ==
    \E id \in Ids(people) :
        /\ UNCHANGED created
        /\ StoreStep(deletePerson(people, id), TRUE)

RelationTypes == {"parent", "child", "partner", "sibling"}

\* addRelationship / removeRelationship return false at once unless both ids
\* match a person.
AddRelationship ==
    \E personId \in Ids(people), relatedId \in Ids(people), type \in RelationTypes :
        /\ TotalRefs(addRelationship(people, personId, relatedId, type)) <= MaxRefs
        /\ UNCHANGED created
        /\ StoreStep(addRelationship(people, personId, relatedId, type), TRUE)

RemoveRelationship ==
    \E personId \in Ids(people), relatedId \in Ids(people), type \in RelationTypes :
        /\ UNCHANGED created
        /\ StoreStep(removeRelationship(people, personId, relatedId, type), TRUE)

RepairData ==
    /\ pc = "idle"
    /\ people' = repairData(people).people
    /\ ret' = repairData(people).changed
    /\ before' = IF repairs = 0 THEN people ELSE before
    /\ repairs' = IF repairs < 2 THEN repairs + 1 ELSE 2
    /\ UNCHANGED <<created, pc, layoutVars>>

\* ----------------------------------------------------------- layout actions
\* calculateLayout(people) on the store's content: the maps are cleared, an
\* empty list returns at once, otherwise the parent/child links are repaired.
StartLayout ==
    /\ pc = "idle"
    /\ positions' = <<>>
    /\ IF Len(people) = 0
       THEN /\ pc' = "done"
            /\ UNCHANGED people
       ELSE /\ pc' = "generations"
            /\ people' = RepairLinks(people)
    /\ generations' = <<>>
    /\ roots' = [roots |-> <<>>, visited |-> {}]
    /\ rootLayouts' = <<>>
    /\ safetyCounter' = 0
    /\ drawn' = Blank
    /\ before' = <<>>
    /\ repairs' = 0
    /\ UNCHANGED <<created, ret>>

AssignGenerations ==
    /\ pc = "generations"
    /\ pc' = "roots"
    /\ generations' = Generations(people)
    /\ UNCHANGED <<people, created, before, repairs, ret, roots, rootLayouts,
                   positions, safetyCounter, drawn>>

BuildForest ==
    /\ pc = "roots"
    /\ pc' = "place"
    /\ roots' = Forest(people, generations)
    /\ rootLayouts' = RootLayouts(people, roots'.roots)
    /\ UNCHANGED <<people, created, before, repairs, ret, generations,
                   positions, safetyCounter, drawn>>

SomeUnplaced == \E i \in DOMAIN rootLayouts : ~rootLayouts[i].placed

\* One round of the placement loop: the best candidate is committed.
PlaceRound ==
    /\ pc = "place"
    /\ SomeUnplaced
    /\ safetyCounter < maxRounds
    /\ safetyCounter' = safetyCounter + 1
    /\ \E best \in {Candidates(rootLayouts, positions)[1]} :
          \E where \in {Placement(rootLayouts, best, positions)} :
              /\ rootLayouts' = [rootLayouts EXCEPT ![best.layout] =
                                    [@ EXCEPT !.placed = TRUE,
                                              !.finalX = where.placeX,
                                              !.how = where.how,
                                              !.round = safetyCounter + 1]]
              /\ positions' = Commit(positions, rootLayouts[best.layout], where.placeX)
    /\ UNCHANGED <<people, created, before, repairs, ret, pc, generations, roots, drawn>>

\* The loop ends: everything is placed, or the round cap is reached.
FinishLayout ==
    /\ pc = "place"
    /\ ~(SomeUnplaced /\ safetyCounter < maxRounds)
    /\ pc' = "done"
    /\ UNCHANGED <<people, created, before, repairs, ret, layoutVars>>

\* render, after calculateLayout: the connections, then the ghosts and their
\* connections.
Render ==
    /\ pc = "done"
    /\ Len(people) > 0
    /\ drawn' = [connections |-> PartnerLines(people, positions)
                                    \o ChildLines(people, positions)
                                    \o GhostLines(ghostPositions(people, positions)),
                 ghosts |-> ghostPositions(people, positions)]
    /\ pc' = "rendered"
    /\ UNCHANGED <<people, created, before, repairs, ret, generations, roots,
                   rootLayouts, positions, safetyCounter>>

\* The split button and the unsplit button of the relation panel.
SplitTypes == {"parent", "partner", "child"}

TotalSplits(ps) ==
    Fold(0, Len(ps), LAMBDA sum, i : sum + Len(ps[i].splitLinks))

\* renderRelations(title, ids, type): the buttons exist for the persons of the
\* relationship list of the type.
RelationList(person, type) ==
    IF type = "parent" THEN person.parents
    ELSE IF type = "partner" THEN person.partners
    ELSE person.children

SplitLink ==
    \E personId \in Ids(people), linkedPersonId \in Ids(people), type \in SplitTypes :
        /\ Includes(RelationList(Get(people, personId), type), linkedPersonId)
        /\ ~HasSplit(Get(people, personId), type, linkedPersonId)
        /\ TotalSplits(people) < MaxSplits
        /\ UNCHANGED created
        /\ StoreStep(splitLink(people, personId, type, linkedPersonId, type), TRUE)

UnsplitLink ==
    \E personId \in Ids(people), linkedPersonId \in Ids(people), type \in SplitTypes :
        /\ Includes(RelationList(Get(people, personId), type), linkedPersonId)
        /\ HasSplit(Get(people, personId), type, linkedPersonId)
        /\ UNCHANGED created
        /\ StoreStep(unsplitLink(people, personId, type, linkedPersonId), TRUE)

Next ==
    \/ CreatePerson
    \/ DeletePerson
    \/ AddRelationship
    \/ RemoveRelationship
    \/ RepairData
    \/ StartLayout
    \/ AssignGenerations
    \/ BuildForest
    \/ PlaceRound
    \/ FinishLayout

Spec == Init /\ [][Next]_vars

\* App.refresh(): render(people) on the store's content, as one call. The
\* canvas is cleared; an empty list returns before calculateLayout is called;
\* otherwise the layout is calculated and the connections and ghosts drawn.
Refresh ==
    /\ pc = "idle"
    /\ IF Len(people) = 0
       THEN /\ drawn' = Blank
            /\ UNCHANGED <<people, positions>>
       ELSE \E laid \in {calculateLayout([positions |-> positions], people)} :
                /\ people' = laid.people
                /\ positions' = laid.positions
                /\ drawn' = [connections |->
                                 PartnerLines(laid.people, laid.positions)
                                     \o ChildLines(laid.people, laid.positions)
                                     \o GhostLines(ghostPositions(laid.people,
                                                                  laid.positions)),
                             ghosts |-> ghostPositions(laid.people, laid.positions)]
    /\ before' = <<>>
    /\ repairs' = 0
    /\ UNCHANGED <<created, ret, pc, generations, roots, rootLayouts, safetyCounter>>

\* The application at work on the loaded content: persons are created and
\* deleted, and the tree is rendered again.
NextRefresh ==
    \/ CreatePerson
    \/ DeletePerson
    \/ Refresh

SpecRefresh == Init /\ [][NextRefresh]_vars

\* The import dialog: importJSON on the text of the chosen file. Ids of
\* persons created later stay clear of the imported ones.
ImportJSON ==
    \E input \in ImportInputs :
        LET r == importJSON(people, input)
            top == CHOOSE m \in Ids(r.people) \cup {created} :
                       \A n \in Ids(r.people) \cup {created} : n <= m
        IN  /\ created' = top
            /\ StoreStep(r.people, r.success)

\* The loaded content with files imported and persons created and deleted.
NextImport ==
    \/ ImportJSON
    \/ CreatePerson
    \/ DeletePerson

SpecImport == Init /\ [][NextImport]_vars

\* calculateLayout is one synchronous call: once entered, its steps (each of
\* them moves pc or safetyCounter) are taken until it returns.
LayoutStep ==
    \/ AssignGenerations
    \/ BuildForest
    \/ PlaceRound
    \/ FinishLayout

\* calculateLayout() run once on the loaded content.
NextLayout ==
    \/ StartLayout
    \/ LayoutStep

\* The control flow of calculateLayout() alone: the statement the call is at,
\* the loop condition and the round counter.  Every step of LayoutStep is a
\* step of Proceed, and the steps of LayoutStep have no other condition.
Proceed ==
    \/ pc = "generations" /\ pc' = "roots" /\ UNCHANGED safetyCounter
    \/ pc = "roots" /\ pc' = "place" /\ UNCHANGED safetyCounter
    \/ /\ pc = "place"
       /\ SomeUnplaced
       /\ safetyCounter < maxRounds
       /\ safetyCounter' = safetyCounter + 1
       /\ UNCHANGED pc
    \/ /\ pc = "place"
       /\ ~(SomeUnplaced /\ safetyCounter < maxRounds)
       /\ pc' = "done"
       /\ UNCHANGED safetyCounter

\* The call is synchronous: until it returns, its next statement runs.
SpecFair == Init /\ [][NextLayout]_vars /\ WF_<<pc, safetyCounter>>(Proceed)

\* The loaded content with its links split and unsplit, persons deleted and
\* relationships removed, then rendered.
NextRender ==
    \/ SplitLink
    \/ UnsplitLink
    \/ DeletePerson
    \/ RemoveRelationship
    \/ StartLayout
    \/ AssignGenerations
    \/ BuildForest
    \/ PlaceRound
    \/ FinishLayout
    \/ Render

SpecRender == Init /\ [][NextRender]_vars

\* Families of MaxRoots persons without parents (ids 1..MaxRoots, in that
\* order) and MaxShared further persons, each of them made the child of any
\* set of the first ones by addRelationship(parent, child, 'child').
FamilyOf(parentsOf) ==
    LET n == MaxRoots + MaxShared
        Step(ps, k) ==
            LET parent == ((k - 1) \div MaxShared) + 1
                child == MaxRoots + ((k - 1) % MaxShared) + 1
            IN  IF parent \in parentsOf[child]
                THEN addRelationship(ps, parent, child, "child")
                ELSE ps
    IN  Fold([i \in 1..n |-> NewPerson(i)], MaxRoots * MaxShared, Step)

InitFamilies ==
    /\ \E parentsOf \in [(MaxRoots + 1)..(MaxRoots + MaxShared) -> SUBSET (1..MaxRoots)] :
          people = FamilyOf(parentsOf)
    /\ created = MaxRoots + MaxShared
    /\ before = <<>>
    /\ repairs = 0
    /\ ret = TRUE
    /\ pc = "idle"
    /\ generations = <<>>
    /\ roots = [roots |-> <<>>, visited |-> {}]
    /\ rootLayouts = <<>>
    /\ positions = <<>>
    /\ safetyCounter = 0
    /\ drawn = Blank

\* calculateLayout() run once on each of these families.
SpecFamilies == InitFamilies /\ [][NextLayout]_vars

\* Families of one parent (id MaxKids + 1) whose children list was filled in
\* any order with any of the persons 1..MaxKids by
\* addRelationship(parent, child, 'child'), any of these children being made
\* a partner of one further person (id MaxKids + 2).
SiblingsOf(kids, partnered) ==
    LET n == MaxKids + 2
        withKids ==
            Fold([i \in 1..n |-> NewPerson(i)], Len(kids),
                 LAMBDA ps, k : addRelationship(ps, MaxKids + 1, kids[k], "child"))
    IN  Fold(withKids, MaxKids,
             LAMBDA ps, c : IF c \in partnered
                            THEN addRelationship(ps, c, MaxKids + 2, "partner")
                            ELSE ps)

InitSiblings ==
    /\ \E kids \in {q \in UNION {[1..k -> 1..MaxKids] : k \in 0..MaxKids} : NoDuplicates(q)} :
          \E partnered \in SUBSET Range(kids) :
              people = SiblingsOf(kids, partnered)
    /\ created = MaxKids + 2
    /\ before = <<>>
    /\ repairs = 0
    /\ ret = TRUE
    /\ pc = "idle"
    /\ generations = <<>>
    /\ roots = [roots |-> <<>>, visited |-> {}]
    /\ rootLayouts = <<>>
    /\ positions = <<>>
    /\ safetyCounter = 0
    /\ drawn = Blank

\* calculateLayout() run once on each of these families.
SpecSiblings == InitSiblings /\ [][NextLayout]_vars

\* Families of MaxCouple persons (ids 1..MaxCouple), of which 1 and 2 may
\* have been made partners, and MaxElders further persons, each made the
\* parent of any of the first ones by addRelationship(elder, child, 'child');
\* the parents list of any elder may hold the id of a person that is not in
\* the content (as an imported content may).
InLawsOf(coupled, childrenOf, orphaned) ==
    LET n == MaxCouple + MaxElders
        base == [i \in 1..n |-> NewPerson(i)]
        couple == IF coupled THEN addRelationship(base, 1, 2, "partner") ELSE base
        Raise(ps, k) ==
            LET elder == MaxCouple + ((k - 1) \div MaxCouple) + 1
                child == ((k - 1) % MaxCouple) + 1
            IN  IF child \in childrenOf[elder]
                THEN addRelationship(ps, elder, child, "child")
                ELSE ps
        Orphan(ps, k) ==
            IF MaxCouple + k \in orphaned
            THEN Put(ps, [Get(ps, MaxCouple + k) EXCEPT !.parents = Append(@, 0)])
            ELSE ps
    IN  Fold(Fold(couple, MaxElders * MaxCouple, Raise), MaxElders, Orphan)

InitInLaws ==
    /\ \E coupled \in BOOLEAN :
          \E childrenOf \in [(MaxCouple + 1)..(MaxCouple + MaxElders) -> SUBSET (1..MaxCouple)] :
              \E orphaned \in SUBSET ((MaxCouple + 1)..(MaxCouple + MaxElders)) :
                  people = InLawsOf(coupled, childrenOf, orphaned)
    /\ created = MaxCouple + MaxElders
    /\ before = <<>>
    /\ repairs = 0
    /\ ret = TRUE
    /\ pc = "idle"
    /\ generations = <<>>
    /\ roots = [roots |-> <<>>, visited |-> {}]
    /\ rootLayouts = <<>>
    /\ positions = <<>>
    /\ safetyCounter = 0
    /\ drawn = Blank

\* calculateLayout() run once on each of these families.
SpecInLaws == InitInLaws /\ [][NextLayout]_vars

\* Families of a person (id 1) with n - 1 partners (ids 2..n) and two further
\* persons: n + 1, who may have been made the parent of person 1, and n + 2,
\* who may have been made the parent of one of the persons 1..n and whose
\* parents list may hold the id of a person that is not in the content.
RowFamilyOf(n, topped, elderOf, orphaned) ==
    LET partnered ==
            Fold([i \in 1..(n + 2) |-> NewPerson(i)], n,
                 LAMBDA ps, k : IF k = 1 THEN ps ELSE addRelationship(ps, 1, k, "partner"))
        Top(ps) == IF topped THEN addRelationship(ps, n + 1, 1, "child") ELSE ps
        Elder(ps) == IF elderOf # 0 THEN addRelationship(ps, n + 2, elderOf, "child")
                     ELSE ps
        Orphan(ps) == IF orphaned
                      THEN Put(ps, [Get(ps, n + 2) EXCEPT !.parents = Append(@, 0)])
                      ELSE ps
    IN  With(With(With(partnered, Top), Elder), Orphan)

InitRows ==
    /\ \E n \in 1..MaxRow, topped \in BOOLEAN, orphaned \in BOOLEAN :
          \E elderOf \in 0..n :
              /\ people = RowFamilyOf(n, topped, elderOf, orphaned)
              /\ created = n + 2
    /\ before = <<>>
    /\ repairs = 0
    /\ ret = TRUE
    /\ pc = "idle"
    /\ generations = <<>>
    /\ roots = [roots |-> <<>>, visited |-> {}]
    /\ rootLayouts = <<>>
    /\ positions = <<>>
    /\ safetyCounter = 0
    /\ drawn = Blank

\* calculateLayout() run once on each of these families.
SpecRows == InitRows /\ [][NextLayout]_vars

\* ------------------------------------------------------------ vocabulary
\* The ids placed by a layout, and the layouts committed before layout i.
PersonsOf(layout) == {layout.relativePositions[k].id : k \in DOMAIN layout.relativePositions}

PlacedBefore(i) ==
    {j \in DOMAIN rootLayouts :
        rootLayouts[j].placed /\ rootLayouts[j].round < rootLayouts[i].round}

\* The ids of the relationship lists that match no person.
Dangling(ps) ==
    {id \in UNION {Range(ps[i].parents) \cup Range(ps[i].children) \cup Range(ps[i].partners) :
                     i \in DOMAIN ps} : id \notin Ids(ps)}

\* Every parent/child/partner reference between two persons has its
\* back-reference.
Bidirectional(ps) ==
    \A i, j \in DOMAIN ps :
        /\ Includes(ps[i].parents, ps[j].id) <=> Includes(ps[j].children, ps[i].id)
        /\ Includes(ps[i].partners, ps[j].id) <=> Includes(ps[j].partners, ps[i].id)

NoDuplicateIds(ps) ==
    \A i \in DOMAIN ps :
        NoDuplicates(ps[i].parents) /\ NoDuplicates(ps[i].children)
            /\ NoDuplicates(ps[i].partners)

\* ------------------------------------------------------------------ claims
\* C1: no two different persons of the position map overlap: whenever their
\* rows are closer than nodeHeight, their x differ by at least
\* nodeWidth + horizontalGap.
C1_NoOverlap ==
    \A i, j \in DOMAIN positions :
        (i # j /\ Abs(positions[i].y - positions[j].y) < nodeHeight)
            => \/ RLeq(RAddInt(positions[i].x, nodeWidth + horizontalGap), positions[j].x)
               \/ RLeq(RAddInt(positions[j].x, nodeWidth + horizontalGap), positions[i].x)

\* A layout of several components, one of them moved by the collision search.
C1_Witness ==
    /\ pc = "done"
    /\ Len(positions) >= 3
    /\ \E i \in DOMAIN rootLayouts : rootLayouts[i].how = "search"
    /\ \E i \in DOMAIN rootLayouts : rootLayouts[i].how = "append"

\* C2: when calculateLayout returns on a non-empty list, the position map has
\* exactly one entry for each person of the list, and none for any other id.
C2_Coverage ==
    (pc = "done" /\ Len(people) > 0)
        => /\ {positions[k].id : k \in DOMAIN positions} = Ids(people)
           /\ Len(positions) = Len(people)

\* A finished layout of persons that were not all reached from generation 0
\* and that carry an id matching no person.
C2_Witness ==
    /\ pc = "done"
    /\ Len(people) >= 2
    /\ Dangling(people) # {}
    /\ \E i \in DOMAIN people : generations[people[i].id] > 0
    /\ Len(roots.roots) >= 2

\* C3 as stated: every x and every y of the position map is >= 0.
C3_NonNegative ==
    \A k \in DOMAIN positions : positions[k].x.n >= 0 /\ positions[k].y >= 0

\* C3, amended: every y is >= 0, and every x of a component committed by the
\* rightmost-append is >= 0; a component committed at its desiredX or by the
\* collision search can lie at a negative x.
C3_NonNegativeAppend ==
    /\ \A k \in DOMAIN positions : positions[k].y >= 0
    /\ \A i \in DOMAIN rootLayouts :
          rootLayouts[i].how \in {"append", "fallback"}
              => \A id \in PersonsOf(rootLayouts[i]) : MapGet(positions, id).x.n >= 0

\* A finished layout with an appended component and a person at a negative x.
C3_Witness ==
    /\ pc = "done"
    /\ \E i \in DOMAIN rootLayouts : rootLayouts[i].how = "append"
    /\ \E k \in DOMAIN positions : positions[k].x.n < 0

\* C4: a repairData() call right after another repairData() call changes
\* nothing and returns false.
C4_RepairIdempotent ==
    [][(repairs >= 1 /\ repairs' = 2) => (people' = people /\ ret' = FALSE)]_vars

\* Two calls in a row, the first of which changed the content.
C4_Witness == repairs = 2 /\ before # people /\ ret = FALSE

\* C5: after a repairData() call, every reference between two persons has its
\* back-reference, no list holds an id twice, and every id that matched no
\* person is still in its list.
C5_RepairConsistent ==
    repairs >= 1
        => /\ Bidirectional(people)
           /\ NoDuplicateIds(people)
           /\ Len(people) = Len(before)
           /\ \A i \in DOMAIN before :
                 \A field \in {"parents", "children", "partners"} :
                    Range(before[i][field]) \ Ids(before) \subseteq Range(people[i][field])

\* One call that added a back-reference or dropped a duplicate, on a content
\* with an id that matches no person.
C5_Witness == repairs = 1 /\ before # people /\ Dangling(people) # {}

\* C6: the content is bidirectional, free of duplicates and free of ids that
\* match no person in the empty store, and every operation keeps it so.
StoreGood(ps) == Bidirectional(ps) /\ NoDuplicateIds(ps) /\ Dangling(ps) = {}

C6_StoreInvariant == [][StoreGood(people) => StoreGood(people')]_vars

\* A consistent content of three persons built by the store's operations.
C6_Witness ==
    /\ pc = "idle"
    /\ repairs = 0
    /\ StoreGood(people)
    /\ Len(people) = 3
    /\ TotalRefs(people) = 4
    /\ \E i \in DOMAIN people : Len(people[i].partners) > 0
    /\ \E i \in DOMAIN people : Len(people[i].parents) > 0

\* C7: once the generations are assigned on a non-empty list, every person has
\* a generation, every generation is >= 0, and some id has generation 0.
C7_Generations ==
    (pc \in {"roots", "place", "done"} /\ Len(people) > 0)
        => /\ Ids(people) \subseteq DOMAIN generations
           /\ \A id \in DOMAIN generations : generations[id] >= 0
           /\ \E id \in DOMAIN generations : generations[id] = 0

\* Generations over three levels that the waves had numbered below 0.
C7_Witness ==
    /\ pc = "roots"
    /\ \E id \in Ids(people) : generations[id] = 2
    /\ \E id \in DOMAIN generations : RawGenerations(people)[id] < 0

\* C8: once the forest is built, every person occurs in exactly one node, in
\* exactly one role (the primary or one of the partners).
RECURSIVE NodeMembers(_)
RECURSIVE NodesMembers(_)
NodeMembers(node) == <<node.person>> \o node.partners \o NodesMembers(node.children)

NodesMembers(nodes) ==
    IF nodes = <<>> THEN <<>> ELSE NodeMembers(Head(nodes)) \o NodesMembers(Tail(nodes))

C8_Partition ==
    (pc \in {"place", "done"} /\ Len(people) > 0)
        => /\ NoDuplicates(NodesMembers(roots.roots))
           /\ Range(NodesMembers(roots.roots)) = Ids(people)

\* A forest with a couple block whose partner is also listed as somebody's
\* child or parent.
C8_Witness ==
    /\ pc = "place"
    /\ \E i \in DOMAIN roots.roots : Len(roots.roots[i].partners) > 0
    /\ \E i, j \in DOMAIN people :
          /\ Includes(people[i].partners, people[j].id)
          /\ Len(people[j].parents) + Len(people[j].children) > 0

\* C9 as stated: one person without relationships gives one root of width
\* nodeWidth and the single position (100, 100).
LonePerson == pc = "done" /\ Len(people) = 1 /\ TotalRefs(people) = 0

C9_LoneAt100 ==
    LonePerson
        => /\ Len(roots.roots) = 1
           /\ roots.roots[1].totalWidth = nodeWidth
           /\ positions = <<[id |-> people[1].id, x |-> RInt(100), y |-> 100]>>

\* C9, amended: one person without relationships gives one root of width
\* nodeWidth and the single position (160, 100): 100 + horizontalGap * 1.5.
C9_LoneAt160 ==
    LonePerson
        => /\ Len(roots.roots) = 1
           /\ roots.roots[1].totalWidth = nodeWidth
           /\ positions = <<[id |-> people[1].id, x |-> RInt(160), y |-> 100]>>

C9_Witness == LonePerson /\ Len(positions) = 1

\* C10, first part: a component committed while none of its anchors is placed,
\* or after a collision search that found nothing, goes to R + 60, R being the
\* largest finalX + width of the components committed before it, or 100 when
\* there is none.
RightEdge(i) ==
    LET edges == {RInt(baseX)} \cup
                 {RAddInt(rootLayouts[j].finalX, rootLayouts[j].width) : j \in PlacedBefore(i)}
    IN  CHOOSE e \in edges : \A other \in edges : RLeq(other, e)

NoAnchorPlaced(i) ==
    \A j \in PlacedBefore(i) : Range(rootLayouts[i].anchors) \cap PersonsOf(rootLayouts[j]) = {}

RightmostAppend ==
    \A i \in DOMAIN rootLayouts :
        (rootLayouts[i].placed /\ (NoAnchorPlaced(i) \/ rootLayouts[i].how = "fallback"))
            => rootLayouts[i].finalX = RAddInt(RightEdge(i), 60)

\* Second part: the components lie left to right in root order, 60 apart.
LeftToRight ==
    \A i, j \in DOMAIN rootLayouts :
        i < j => RLeq(RAddInt(rootLayouts[i].finalX, rootLayouts[i].width + 60),
                      rootLayouts[j].finalX)

SplitRecords ==
    UNION {{<<i, k>> : k \in DOMAIN people[i].splitLinks} : i \in DOMAIN people}

LinkedIsPlaced(r) ==
    LET split == people[r[1]].splitLinks[r[2]]
    IN  split.linkedPersonId \in Ids(people) /\ MapHas(positions, split.linkedPersonId)

GhostsFor(r) ==
    LET split == people[r[1]].splitLinks[r[2]]
    IN  {g \in DOMAIN drawn.ghosts :
            /\ drawn.ghosts[g].person = people[r[1]].id
            /\ drawn.ghosts[g].linkedPerson = split.linkedPersonId
            /\ drawn.ghosts[g].splitType = split.type}

\* A canonical connector between a and b: their partner line, or the child
\* line of one of them that carries the other as a parent.
Canonical(c, a, b) ==
    \/ c.kind = "partner" /\ Range(c.ids) = {a, b}
    \/ /\ c.kind = "child"
       /\ \/ c.ids[Len(c.ids)] = a /\ Includes(SubSeq(c.ids, 1, Len(c.ids) - 1), b)
          \/ c.ids[Len(c.ids)] = b /\ Includes(SubSeq(c.ids, 1, Len(c.ids) - 1), a)

\* C11: for every split-link record on A with linked person B, both
\* positioned, whatever the type: the rendering holds no canonical connector
\* between A and B, it holds a connector that ends at the top centre of A's
\* ghost, and for type parent the ghost is at (B.x, B.y + generationGap).
C11_SplitConnectors ==
    pc = "rendered"
        => \A r \in SplitRecords :
              LET a == people[r[1]].id
                  split == people[r[1]].splitLinks[r[2]]
                  b == split.linkedPersonId
              IN  (LinkedIsPlaced(r) /\ MapHas(positions, a))
                     => /\ \A c \in DOMAIN drawn.connections :
                              ~Canonical(drawn.connections[c], a, b)
                        /\ \E g \in GhostsFor(r) : \E c \in DOMAIN drawn.connections :
                              /\ drawn.connections[c].kind = "ghost"
                              /\ drawn.connections[c].ids = <<b, a>>
                              /\ drawn.connections[c].to =
                                    [x |-> RAddInt(drawn.ghosts[g].ghostX, nodeWidth \div 2),
                                     y |-> drawn.ghosts[g].ghostY]
                        /\ split.type = "parent"
                              => \E g \in GhostsFor(r) :
                                    /\ drawn.ghosts[g].ghostX = MapGet(positions, b).x
                                    /\ drawn.ghosts[g].ghostY = MapGet(positions, b).y + generationGap

\* C12: every split-link record whose linked person exists and has a position
\* (x, y) gives exactly one ghost, at (x, y + generationGap) for type parent,
\* (x + nodeWidth + horizontalGap, y) for type partner and
\* (x, y - generationGap) for type child; any other record gives no ghost.
C12_GhostGeometry ==
    pc = "rendered"
        => /\ Len(drawn.ghosts) = Cardinality({r \in SplitRecords : LinkedIsPlaced(r)})
           /\ \A r \in SplitRecords :
                 LET split == people[r[1]].splitLinks[r[2]]
                     pos == MapGet(positions, split.linkedPersonId)
                 IN  IF ~LinkedIsPlaced(r) THEN GhostsFor(r) = {}
                     ELSE /\ Cardinality(GhostsFor(r)) = 1
                          /\ \A g \in GhostsFor(r) :
                                /\ split.type = "parent"
                                      => /\ drawn.ghosts[g].ghostX = pos.x
                                         /\ drawn.ghosts[g].ghostY = pos.y + generationGap
                                /\ split.type = "partner"
                                      => /\ drawn.ghosts[g].ghostX =
                                                RAddInt(pos.x, nodeWidth + horizontalGap)
                                         /\ drawn.ghosts[g].ghostY = pos.y
                                /\ split.type = "child"
                                      => /\ drawn.ghosts[g].ghostX = pos.x
                                         /\ drawn.ghosts[g].ghostY = pos.y - generationGap

\* A rendering with the ghost of a child-type record.
C12_Witness ==
    /\ pc = "rendered"
    /\ \E g \in DOMAIN drawn.ghosts : drawn.ghosts[g].splitType = "child"

\* Every node of a forest.
RECURSIVE AllNodes(_)
AllNodes(nodes) ==
    IF nodes = <<>> THEN {}
    ELSE {Head(nodes)} \cup AllNodes(Head(nodes).children) \cup AllNodes(Tail(nodes))

\* C13: every node with k partners has coupleWidth (1 + k) * nodeWidth +
\* k * horizontalGap; its totalWidth is the larger of coupleWidth and the sum
\* of its child nodes' totalWidth plus a gap between consecutive child nodes,
\* and is coupleWidth when it has no child node.
C13_BlockSizing ==
    pc \in {"place", "done"}
        => \A node \in AllNodes(roots.roots) :
              LET k == Len(node.partners)
                  n == Len(node.children)
                  block == SumTotalWidth(node.children) + (n - 1) * horizontalGap
              IN  /\ node.coupleWidth = (1 + k) * nodeWidth + k * horizontalGap
                  /\ n = 0 => node.totalWidth = node.coupleWidth
                  /\ n > 0 => node.totalWidth =
                                 IF node.coupleWidth >= block THEN node.coupleWidth ELSE block

\* A forest with a node whose two children are wider than its couple block.
C13_Witness ==
    /\ pc = "place"
    /\ \E node \in AllNodes(roots.roots) :
          Len(node.children) = 2 /\ node.totalWidth > node.coupleWidth

\* C14: the placement loop ends; after k rounds exactly k components are
\* placed, one committed in each round, and no person of a component that is
\* still unplaced has a position, wherever the loop stops; when the loop has
\* ended, min(n, 100) of the n components are placed.
PlacedCount == Cardinality({i \in DOMAIN rootLayouts : rootLayouts[i].placed})

OnePerRound ==
    pc \in {"place", "done"}
        => /\ PlacedCount = safetyCounter
           /\ \A k \in 1..safetyCounter :
                 Cardinality({i \in DOMAIN rootLayouts :
                                rootLayouts[i].placed /\ rootLayouts[i].round = k}) = 1
           /\ \A i \in DOMAIN rootLayouts :
                 ~rootLayouts[i].placed
                     => \A id \in PersonsOf(rootLayouts[i]) : ~MapHas(positions, id)

CapRespected ==
    (pc = "done" /\ Len(people) > 0)
        => PlacedCount = IF Len(rootLayouts) < maxRounds THEN Len(rootLayouts) ELSE maxRounds

C15_RepairReturn == repairs = 1 => (ret <=> before # people)

\* The relationship of the given type from p to r is recorded on some side:
\* a parent, child or partner reference in either list, or for siblings a
\* parent of p that is a parent of r too.
RelationshipExists(ps, p, r, type) ==
    LET person == Get(ps, p)
        related == Get(ps, r)
    IN  IF type = "parent"
        THEN Includes(person.parents, r) \/ Includes(related.children, p)
        ELSE IF type = "child"
        THEN Includes(person.children, r) \/ Includes(related.parents, p)
        ELSE IF type = "partner"
        THEN Includes(person.partners, r) \/ Includes(related.partners, p)
        ELSE Range(person.parents) \cap Range(related.parents) # {}

\* addRelationship(p, r, type) then removeRelationship(p, r, type) leaves the
\* content as it was, for the given types.
RemoveInvertsAdd(types) ==
    \A p \in Ids(people), r \in Ids(people), type \in types :
        (p # r /\ ~RelationshipExists(people, p, r, type))
            => removeRelationship(addRelationship(people, p, r, type), p, r, type) = people

\* C16: for each of the types parent, child, partner and sibling and every two
\* stored persons between whom the relationship does not exist, adding it and
\* then removing it restores every relationship list.
C16_RemoveInvertsAdd == RemoveInvertsAdd(RelationTypes)

\* The clusters calculateLayout has formed once the forest is built.
Clusters == RootClusters(people, PotentialRoots(people, generations))

SameCluster(a, b) ==
    \E k \in DOMAIN Clusters : a \in Range(Clusters[k]) /\ b \in Range(Clusters[k])

SharePerson(a, b) ==
    getDescendants(people, a) \cap getDescendants(people, b) \cap Ids(people) # {}

\* C17: every two generation-0 persons whose descendant sets share a person
\* are in the same cluster.
C17_SharedCluster ==
    pc \in {"place", "done"}
        => \A a \in Ids(people), b \in Ids(people) :
              (generations[a] = 0 /\ generations[b] = 0 /\ SharePerson(a, b))
                  => SameCluster(a, b)

Positioned == {id \in Ids(people) : MapHas(positions, id)}

RowOf(id) == MapGet(positions, id).y

RECURSIVE DepthsOf(_, _)
DepthsOf(node, d) ==
    {<<node.person, d>>} \cup {<<node.partners[k], d>> : k \in DOMAIN node.partners}
        \cup UNION {DepthsOf(node.children[k], d + 1) : k \in DOMAIN node.children}

C19_PersonAtZero ==
    (pc \in {"roots", "place", "done"} /\ Len(people) > 0)
        => /\ MinOf({generations[id] : id \in Ids(people)}) = 0
           /\ PotentialRoots(people, generations) # <<>>

\* Every [gen, queue] the generation pass goes through on the list ps: the
\* states of the while loop, wave after wave.
RECURSIVE DrainStates(_, _)
DrainStates(ps, st) ==
    IF st.queue = <<>> THEN {st}
    ELSE {st} \cup DrainStates(ps, BfsVisit(ps, st))

WaveStates(ps) ==
    LET f[i \in 0..Len(ps)] ==
            IF i = 0 THEN [gen |-> <<>>, queue |-> <<>>]
            ELSE BfsSeed(ps, f[i - 1], ps[i].id)
    IN  UNION {IF ps[i].id \in DOMAIN f[i - 1].gen THEN {f[i - 1]}
               ELSE DrainStates(ps, [gen |-> f[i - 1].gen @@ (ps[i].id :> 0),
                                     queue |-> Append(f[i - 1].queue,
                                                      [id |-> ps[i].id, gen |-> 0])]) :
                 i \in DOMAIN ps}

\* An id keeps the generation it was given first, and is queued once with it.
FirstAssignmentWins(ps) ==
    \A st \in WaveStates(ps) :
        /\ \A id \in DOMAIN st.gen : RawGenerations(ps)[id] = st.gen[id]
        /\ \A k \in DOMAIN st.queue :
              /\ st.queue[k].id \in DOMAIN st.gen
              /\ st.gen[st.queue[k].id] = st.queue[k].gen
              /\ \A j \in DOMAIN st.queue : st.queue[j].id = st.queue[k].id => j = k

\* A labelling of the persons with child = parent + 1 for every parent-child
\* pair and equal labels for partners and for the parents of a shared child.
ConsistentLabelling(ps, label) ==
    \A i, j \in DOMAIN ps :
        /\ Includes(ps[i].children, ps[j].id) => label[ps[j].id] = label[ps[i].id] + 1
        /\ Includes(ps[i].partners, ps[j].id) => label[ps[j].id] = label[ps[i].id]
        /\ (\E k \in DOMAIN ps : Includes(ps[k].parents, ps[i].id) /\ Includes(ps[k].parents, ps[j].id))
              => label[ps[j].id] = label[ps[i].id]

AdmitsLabelling(ps) ==
    \E label \in [Ids(ps) -> 0..(Len(ps) - 1)] : ConsistentLabelling(ps, label)

\* C20: in the generation pass an id keeps the generation it was given first;
\* when the relationships are bidirectional and admit a consistent labelling,
\* the generations are one.
C20_FirstAssignment ==
    (pc \in {"roots", "place", "done"} /\ Len(people) > 0)
        => /\ FirstAssignmentWins(people)
           /\ (Bidirectional(people) /\ AdmitsLabelling(people))
                 => ConsistentLabelling(people, generations)

\* Generations assigned on a consistent list of three persons over two
\* levels, the child being first in the list.
C20_Witness ==
    /\ pc \in {"roots", "place", "done"}
    /\ Len(people) = 3
    /\ Bidirectional(people)
    /\ AdmitsLabelling(people)
    /\ people[1].parents # <<>>
    /\ \E i \in DOMAIN people : people[i].partners # <<>>

\* The persons buildTree made a node for, one entry per node, in the order
\* the nodes were made.
RECURSIVE NodePrimaries(_)
NodePrimaries(nodes) ==
    IF nodes = <<>> THEN <<>>
    ELSE <<Head(nodes).person>> \o NodePrimaries(Head(nodes).children)
            \o NodePrimaries(Tail(nodes))

\* A person that has itself among its descendants through children links.
OwnAncestor(ps, id) ==
    \E c \in Range(Get(ps, id).children) : id \in getDescendants(ps, c)

\* C21: buildTree and getDescendants end on every list, cycles included: no
\* id gets a node twice, every id is visited, a call on a visited id returns
\* null and leaves the visited set as it is, and the descendants of a person
\* are ids of the lists.
C21_BuildTreeOnce ==
    (pc \in {"place", "done"} /\ Len(people) > 0)
        => /\ NoDuplicates(NodePrimaries(roots.roots))
           /\ Len(NodePrimaries(roots.roots)) <= Len(people)
           /\ Ids(people) \subseteq roots.visited
           /\ \A id \in roots.visited :
                 buildTree(people, roots.visited, id)
                     = [node |-> NULL, visited |-> roots.visited]
           /\ \A id \in Ids(people) :
                 getDescendants(people, id) \subseteq Ids(people) \cup Dangling(people)

\* A forest built on a list of three persons where one is its own ancestor
\* through another person (mutual parent links).
C21_Witness ==
    /\ pc \in {"place", "done"}
    /\ Len(people) = 3
    /\ \E id \in Ids(people) :
          /\ OwnAncestor(people, id)
          /\ ~Includes(Get(people, id).children, id)

\* The child ids of a node as buildTree collects them, before the sort.
ChildIdsOf(node) == ChildIds(people, Get(people, node.person), node.partners)

Before(q, a, b) == \E i, j \in DOMAIN q : i < j /\ q[i] = a /\ q[j] = b

ChildrenOf(node) == [k \in DOMAIN node.children |-> node.children[k].person]

\* C22: in every block whose child ids all match persons the children are in
\* the order of their weights; two children of equal weight that both have a
\* birth date are in the order of the dates; two children of equal weight that
\* do not both have one, or have the same, are in input order.
C22_ChildOrder ==
    pc \in {"place", "done"}
        => \A node \in AllNodes(roots.roots) :
              Range(ChildIdsOf(node)) \subseteq Ids(people)
                  => \A i, j \in DOMAIN node.children :
                        LET a == Get(people, node.children[i].person)
                            b == Get(people, node.children[j].person)
                        IN  i < j
                              => /\ getWeight(a) <= getWeight(b)
                                 /\ (getWeight(a) = getWeight(b)
                                        /\ a.birthDate # 0 /\ b.birthDate # 0)
                                       => a.birthDate <= b.birthDate
                                 /\ (getWeight(a) = getWeight(b)
                                        /\ (a.birthDate = 0 \/ b.birthDate = 0
                                               \/ a.birthDate = b.birthDate))
                                       => Before(ChildIdsOf(node), a.id, b.id)

Unplaced == {i \in DOMAIN rootLayouts : ~rootLayouts[i].placed}

\* +10 with an anchor that has a position, -5 with anchors none of which has
\* one, +1 without anchors.
ScoreOf(i) ==
    IF \E a \in Range(rootLayouts[i].anchors) : MapHas(positions, a) THEN 10
    ELSE IF rootLayouts[i].anchors # <<>> THEN -5
    ELSE 1

DesiredXOf(i) == Candidate(rootLayouts, i, positions).desiredX

\* Layout i is to be chosen before layout j.
Precedes(i, j) ==
    \/ ScoreOf(i) > ScoreOf(j)
    \/ /\ ScoreOf(i) = ScoreOf(j)
       /\ ScoreOf(i) = 10
       /\ RCmp(DesiredXOf(i), DesiredXOf(j)) < 0
    \/ /\ ScoreOf(i) = ScoreOf(j)
       /\ ScoreOf(i) = 10 => RCmp(DesiredXOf(i), DesiredXOf(j)) = 0
       /\ i < j

\* C23: the component committed in a round is the unplaced component that
\* precedes every other unplaced one: higher score, or equal score 10 and
\* smaller desiredX, or else earlier in root order.
C23_Selection ==
    [][(pc = "place" /\ safetyCounter' = safetyCounter + 1)
          => \E i \in Unplaced :
                /\ rootLayouts'[i].placed
                /\ \A j \in Unplaced \ {i} :
                      ~rootLayouts'[j].placed /\ Precedes(i, j)]_vars

\* Layout k had an anchor with a position before round r.
AnchoredBefore(k, r) ==
    \E a \in Range(rootLayouts[k].anchors) :
        \E l \in DOMAIN rootLayouts :
            /\ rootLayouts[l].placed
            /\ rootLayouts[l].round < r
            /\ a \in PersonsOf(rootLayouts[l])

\* A finished placement where two components had a placed anchor in the same
\* round and the later one in root order was committed in it.
C23_Witness ==
    /\ pc = "done"
    /\ \E i, j \in DOMAIN rootLayouts :
          /\ i < j
          /\ rootLayouts[i].placed
          /\ rootLayouts[j].placed
          /\ rootLayouts[j].round < rootLayouts[i].round
          /\ AnchoredBefore(i, rootLayouts[j].round)
          /\ AnchoredBefore(j, rootLayouts[j].round)

\* The offsets of the claimed probe order from D in direction d: D + 50k*d
\* for k = 1..80, each followed by D - 50k*d once 50k > 1500.
ProbeOrder(D, d) ==
    Fold(<<>>, 80,
         LAMBDA order, k :
             order \o <<RAddInt(D, 50 * k * d)>>
                   \o (IF 50 * k > 1500 THEN <<RAddInt(D, -(50 * k * d))>> ELSE <<>>))

FitsAt(i, X) == checkFit(rootLayouts[i], X, positions).fits

PushAt(i, X) == checkFit(rootLayouts[i], X, positions).pushDir

\* The component i, which has a desiredX, is committed at X as the probe
\* order prescribes.
CommittedInOrder(i, X) ==
    LET D == DesiredXOf(i)
        order == ProbeOrder(D, IF PushAt(i, D) >= 0 THEN 1 ELSE -1)
    IN  IF FitsAt(i, D) THEN X = D
        ELSE (\E m \in DOMAIN order : FitsAt(i, order[m]))
                => \E m \in DOMAIN order :
                      /\ X = order[m]
                      /\ FitsAt(i, order[m])
                      /\ \A l \in 1..(m - 1) : ~FitsAt(i, order[l])

RAbs(a) == IF a.n < 0 THEN [n |-> -a.n, d |-> a.d] ELSE a

\* The offsets at which the probe of component i is examined: its desiredX
\* and the first steps of the search on both sides, or the origin of the
\* canvas for a component without anchors.
ProbedAt(i) ==
    IF ScoreOf(i) = 10
    THEN {RAddInt(DesiredXOf(i), searchStep * k) : k \in -3..3}
    ELSE {RInt(baseX)}

\* The pairs <<candidate person, placed person>> of component i at offset X
\* that are less than a node height apart in y and less than a padded node
\* width apart in x.
CollidingPairs(i, X) ==
    {c \in (DOMAIN rootLayouts[i].relativePositions) \X (DOMAIN positions) :
        LET rel == rootLayouts[i].relativePositions[c[1]]
            pos == positions[c[2]]
        IN  /\ Abs((baseY + rel.y) - pos.y) < nodeHeight
            /\ RLess(RAbs(RSub(RAddInt(X, rel.x), pos.x)),
                     RInt(nodeWidth + horizontalGap))}

\* Of these, the pairs whose candidate centre is strictly right of the
\* obstacle centre.
RightOfObstacle(i, X) ==
    {c \in CollidingPairs(i, X) :
        RLess(RAddInt(positions[c[2]].x, nodeWidth \div 2),
              RAddInt(RAddInt(X, rootLayouts[i].relativePositions[c[1]].x),
                      nodeWidth \div 2))}

ProbeAgrees(i, X) ==
    /\ FitsAt(i, X) <=> CollidingPairs(i, X) = {}
    /\ PushAt(i, X) = Cardinality(RightOfObstacle(i, X))
                        - Cardinality(CollidingPairs(i, X) \ RightOfObstacle(i, X))

\* A round whose component collides at its desiredX with signal 0 and is
\* committed by the search ends right of the desiredX or beyond the reach
\* of the preferred side.
ZeroGoesRight(i) ==
    (/\ ScoreOf(i) = 10
     /\ CollidingPairs(i, DesiredXOf(i)) # {}
     /\ 2 * Cardinality(RightOfObstacle(i, DesiredXOf(i)))
            = Cardinality(CollidingPairs(i, DesiredXOf(i)))
     /\ rootLayouts'[i].placed
     /\ rootLayouts'[i].how = "search")
        => \/ RLess(DesiredXOf(i), rootLayouts'[i].finalX)
           \/ /\ RLess(rootLayouts'[i].finalX, RAddInt(DesiredXOf(i), -oppositeAfter))
              /\ \A k \in 1..(oppositeAfter \div searchStep) :
                    CollidingPairs(i, RAddInt(DesiredXOf(i), searchStep * k)) # {}

\* A round leaves of all its probes no trace: the position map grows by the
\* persons of the committed component only, and the other components keep
\* their placement state.
ProbesLeaveNoTrace ==
    \A i \in Unplaced :
        rootLayouts'[i].placed
            => /\ positions' = Commit(positions, rootLayouts[i], rootLayouts'[i].finalX)
               /\ \A j \in DOMAIN rootLayouts \ {i} : rootLayouts'[j] = rootLayouts[j]
               /\ rootLayouts'[i].relativePositions = rootLayouts[i].relativePositions

StandsAt(m, i, X) ==
    \A k \in DOMAIN rootLayouts[i].relativePositions :
        LET rel == rootLayouts[i].relativePositions[k]
        IN  /\ MapHas(m, rel.id)
            /\ MapGet(m, rel.id).x = RAddInt(X, rel.x)
            /\ MapGet(m, rel.id).y = baseY + rel.y

\* What one round commits: one unplaced component, flagged, with its finalX
\* and its persons at finalX + rel.x, 100 + rel.y.
CommitsOne ==
    \E i \in Unplaced :
        /\ rootLayouts'[i].placed
        /\ StandsAt(positions', i, rootLayouts'[i].finalX)

\* What a round keeps: the positions of the positioned persons, and the flag
\* and finalX of the placed components.
KeepsPlaced ==
    /\ \A k \in DOMAIN positions :
          /\ MapHas(positions', positions[k].id)
          /\ MapGet(positions', positions[k].id) = positions[k]
    /\ \A j \in DOMAIN rootLayouts :
          rootLayouts[j].placed
              => /\ rootLayouts'[j].placed
                 /\ rootLayouts'[j].finalX = rootLayouts[j].finalX

\* C26: a round commits one component, whose persons get the position
\* (X + rel.x, 100 + rel.y) and whose placed flag and finalX are set; no
\* step of the placement loop changes the position of a positioned person
\* or the flag or finalX of a placed component.
C26_AppendOnly ==
    [][(pc = "place")
          => /\ KeepsPlaced
             /\ (safetyCounter' = safetyCounter + 1) => CommitsOne]_vars

\* A finished placement of at least two rounds where the component of the
\* first round still stands at its finalX.
C26_Witness ==
    /\ pc = "done"
    /\ \E i, j \in DOMAIN rootLayouts :
          /\ rootLayouts[i].placed
          /\ rootLayouts[j].placed
          /\ rootLayouts[i].round = 1
          /\ rootLayouts[j].round > 1
          /\ StandsAt(positions, i, rootLayouts[i].finalX)
          /\ StandsAt(positions, j, rootLayouts[j].finalX)

\* The view as the finished call leaves it.
ViewNow == [positions |-> positions]

\* C27: a second calculateLayout on the list the first call has just laid out
\* (with the links as the first call repaired them) gives the position map
\* of the first call, entry by entry, and finds nothing left to repair.
C27_Repeatable ==
    (pc = "done" /\ Len(people) > 0)
        => /\ calculateLayout(ViewNow, people).positions = positions
           /\ calculateLayout(ViewNow, people).people = people

\* A finished layout of several components, one of them placed next to its
\* anchors, that the second call reproduces.
C27_Witness ==
    /\ pc = "done"
    /\ Len(rootLayouts) >= 2
    /\ \E i \in DOMAIN rootLayouts : rootLayouts[i].how \in {"desired", "search"}
    /\ Len(positions) = Len(people)
    /\ calculateLayout(ViewNow, people).positions = positions

\* The keys of a Map.
KeysOf(entries) == {entries[k].id : k \in DOMAIN entries}

\* C28: after every call render(people) the keys of the position map are ids
\* of the list just rendered; after render of an empty list the position
\* map is empty.
C28_PositionsOfRendered ==
    [][Refresh => KeysOf(positions') \subseteq Ids(people')]_vars

\* The record names a person of the store that is in the owner's
\* relationship list of the record's type.
SplitStands(person, split) ==
    /\ split.linkedPersonId \in Ids(people)
    /\ Includes(RelationList(person, split.type), split.linkedPersonId)

\* C29: every split-link record stored on a person names a linkedPersonId
\* that is in the store and related to the person by the record's type,
\* whatever was split, unsplit, removed or deleted before.
C29_SplitLinksStand ==
    \A i \in DOMAIN people :
        \A k \in DOMAIN people[i].splitLinks :
            SplitStands(people[i], people[i].splitLinks[k])

\* The ids of the entries of a people array that have an id and a firstName.
Accepted(entries) ==
    {entries[k].id : k \in {j \in DOMAIN entries :
                                /\ ~entries[j].isNull
                                /\ entries[j].id # 0
                                /\ entries[j].firstName}}

\* C30: importJSON returns (it never throws); when it returns success false
\* the stored persons and their relationship lists are as before the call;
\* when it returns success true, count is the number of persons in the
\* store, and these are the entries of the people array that have an id and
\* a firstName.
C30_ImportAllOrNothing ==
    pc = "idle"
        => \A input \in ImportInputs :
              LET r == importJSON(people, input)
              IN  /\ r.success \in BOOLEAN
                  /\ ~r.success => r.people = people
                  /\ r.success => /\ r.count = Len(r.people)
                                  /\ Ids(r.people) = Accepted(input.people)

====
